---- MODULE Spec2Model ----
(***************************************************************************)
(* Speedcamwarner: the voice prompt worker (AccusticWarnerThread.py), the  *)
(* map event router and the marker registry (osm_wrapper_ported.py).       *)
(*                                                                         *)
(* Twelve specifications share the variables below:                        *)
(*   SpecReg     the marker registry (Maps) and the calculator registries  *)
(*   SpecCons    the construction-area markers of the registry             *)
(*   SpecIdem    draw_speed_cams run twice on one batch of camera dicts    *)
(*   SpecCams    draw_speed_cams on one batch: tuples and icons            *)
(*   SpecVoice   VoicePromptThread: run loop, process(), Clock callbacks   *)
(*   SpecSpeech  VoicePromptThread on every trigger, mode and platform     *)
(*   SpecOSM     OSMThread: run loop and process()                         *)
(*   SpecMap     OSMThread with the draw callbacks it schedules            *)
(*   SpecCenter  draw_center while osm_update_center moves the center      *)
(*   SpecPois    draw_pois on one batch of POI elements                    *)
(*   SpecWorkers both workers and the thread of the Clock                  *)
(*   SpecFair    both workers and the Clock under a fair scheduler         *)
(* Python sequences are 0-based; the TLA+ sequences here are 1-based, so   *)
(* attributes[0] of the source is attrs[1] here.                           *)
(***************************************************************************)
EXTENDS Integers, Sequences, FiniteSets, TLC

VARIABLES
    \* ---- Maps (marker registry) and the external calculator -------------
    markers_cams,                \* Maps.markers_cams: list of markers
    markers_construction_areas,  \* Maps.markers_construction_areas
    speed_cam_dict,              \* calculator.speed_cam_dict: list of dicts
    construction_areas,          \* calculator.construction_areas: list of dicts
    osm_queue,                   \* map_queue: pending live camera dicts
    cloud_queue,                 \* map_queue: pending cloud camera dicts
    db_queue,                    \* map_queue: pending database camera dicts
    construction_queue,          \* map_queue: pending construction dicts
    nextMarker,                  \* identity of the next marker object
    produced,                    \* number of dicts produced so far
    last,                        \* the last registry operation and its pre-state
    \* ---- worker lifecycle, shared by both workers ------------------------
    terminate,                   \* cond.terminate
    resumed,                     \* resume.isResumed()
    run_in_back_ground,          \* main_app.run_in_back_ground
    \* ---- VoicePromptThread and the Clock ---------------------------------
    gpssignalqueue,              \* the four queues of voice_prompt_queue
    maxspeedexceededqueue,
    onlinequeue,
    arqueue,
    cv_voice,                    \* holder of the condition's lock
    vpc,                         \* position of the voice worker
    voice_entry,                 \* process(): the consumed item
    lock,                        \* VoicePromptThread._lock
    ai_voice_prompts,            \* set_configs(): NLU mode
    clock,                       \* callbacks scheduled with Clock.schedule_once
    playing,                     \* the sounds between play() and stop()
    speaking,                    \* an utterance is being spoken
    nproduced,                   \* voice events produced so far
    started,                     \* log: the playbacks and utterances started
    finished,                    \* number of those that have ended
    vFinalCleared,               \* queues cleared after terminate was observed
    \* ---- OSMThread (the map event router) --------------------------------
    map_update_queue,            \* map_queue: the map-update items
    poi_queue,                   \* poi_queue: POI lists and route tuples
    cv_map,                      \* holder of the map condition's lock
    cv_poi,                      \* holder of the POI condition's lock
    opc,                         \* position of the router
    item,                        \* process(): the consumed map-update item
    pois,                        \* process(): the consumed POI item
    trigger,                     \* OSMThread.trigger
    POIS,                        \* OSMThread.POIS
    pois_drawn,                  \* OSMThread.pois_drawn
    last_route,                  \* OSMThread.last_route
    nmap,                        \* map-update items produced so far
    npoi,                        \* POI items produced so far
    iter_draws,                  \* draw_map calls of the current process() step
    \* ---- Maps on the thread that runs the Clock callbacks ---------------
    markers_pois,                \* Maps.markers_pois
    markers,                     \* Maps.markers: the car marker
    centerLat,                   \* Maps.centerLat
    centerLng,                   \* Maps.centerLng
    upc,                         \* position of a caller inside osm_update_center
    first_start,                 \* Maps.first_start
    map_view,                    \* map_layout.map_view: lat, lon, zoom, center
    dpc,                         \* draw_pois in progress: position and locals
    mutators,                    \* the threads that have changed a marker list
    \* ---- history ---------------------------------------------------------
    poi_log,                     \* the POI lists handled by process()
    log_errors,                  \* ERROR lines logged by OSMThread.process
    device,                      \* the platform the application runs on
    vAfter,                      \* process() steps of the voice worker and of
    oAfter                       \* the router started after terminate was set

regVars == <<markers_cams, markers_construction_areas, speed_cam_dict,
             construction_areas, osm_queue, cloud_queue, db_queue,
             construction_queue, nextMarker, produced, last>>

lifeVars == <<terminate, resumed, run_in_back_ground>>

voiceQueues == <<gpssignalqueue, maxspeedexceededqueue, onlinequeue, arqueue>>

voiceVars == <<voiceQueues, cv_voice, vpc, voice_entry, lock, ai_voice_prompts,
               clock, playing, speaking, nproduced, started, finished,
               vFinalCleared>>

osmVars == <<map_update_queue, poi_queue, cv_map, cv_poi, opc, item, pois,
             trigger, POIS, pois_drawn, last_route, nmap, npoi, iter_draws>>

uiVars == <<markers_pois, markers, centerLat, centerLng, upc, first_start,
            map_view, dpc, mutators>>

histVars == <<poi_log, log_errors, device, vAfter, oAfter>>

vars == <<regVars, lifeVars, voiceVars, osmVars, uiVars, histVars>>

\* what the steps of one component leave alone
notReg == <<lifeVars, voiceVars, osmVars, uiVars, histVars>>
notLife == <<regVars, voiceVars, osmVars, uiVars, histVars>>
notVoice == <<regVars, lifeVars, osmVars, uiVars, histVars>>
notOsm == <<regVars, lifeVars, uiVars, histVars>>

-----------------------------------------------------------------------------
(* Bounds of the model *)

\* dicts produced on the camera and construction queues in one behaviour
MaxProducedDicts == 2
\* dicts appended to each calculator registry in one behaviour
MaxCalcDicts == 2

\* coordinates (lat, lon) that cameras and construction areas are drawn from
Coords == {<<1, 2>>, <<2, 1>>}
\* camera keys: a key is a sequence of words, "FIX_A" is <<"FIX", "A">>
CamKeys == {<<"FIX", "A">>, <<"FIX", "B">>}
ConstructionKeys == {<<"CONSTRUCTION", "A">>, <<"CONSTRUCTION", "B">>}

\* voice events produced in one behaviour
MaxVoiceEvents == 2
\* map-update items and POI items produced in one behaviour
MaxMapItems == 2
MaxPoiItems == 2

\* the sentinels of the map-update queue
MapItems == {"EXIT", "UPDATE"}
\* the payloads of the POI queue: a list of POI dicts or a route tuple
Hospital == [lat |-> 10, lon |-> 20, tags |-> [amenity |-> "hospital"]]
Fuel == [lat |-> 10, lon |-> 20, tags |-> [amenity |-> "fuel"]]
PoiItems == {[kind |-> "list", elems |-> <<>>],
             [kind |-> "list", elems |-> <<Hospital>>],
             [kind |-> "list", elems |-> <<Hospital, Fuel>>],
             [kind |-> "tuple", elems |-> <<Hospital>>]}

\* POI elements as the Overpass answer carries them: with all the tags the
\* bubble shows, with an amenity that has no icon, without tags, and without
\* one of the coordinates
PoiFull == [lat |-> 11, lon |-> 21,
            tags |-> ("amenity" :> "fuel") @@ ("addr:city" :> "Graz")
                     @@ ("addr:postcode" :> "8010") @@ ("addr:street" :> "Ring")
                     @@ ("name" :> "Station") @@ ("phone" :> "0316")]
PoiCafe == [lat |-> 12, lon |-> 22, tags |-> [amenity |-> "cafe"]]
PoiNoTags == [lat |-> 13, lon |-> 23]
PoiNoLat == [lon |-> 24, tags |-> [amenity |-> "hospital"]]
PoiNoLon == [lat |-> 15, tags |-> [amenity |-> "fuel"]]
PoiElements == {Hospital, PoiFull, PoiCafe, PoiNoTags, PoiNoLat, PoiNoLon}
MaxBatch == 3
PoiBatches == UNION {[1..n -> PoiElements] : n \in 1..MaxBatch}

\* the triggers produced on each of the four voice queues
GpsEvents == {"GPS_OFF", "GPS_ON"}
MaxSpeedEvents == {"FIX_100"}
OnlineEvents == {"OSM_DATA_ERROR"}
ArEvents == {"AR_HUMAN"}

-----------------------------------------------------------------------------
(* Helpers on sequences *)

Range(s) == {s[i] : i \in DOMAIN s}

\* all the orders a Python set of hashable tuples can be listed in
Perms(S) == {p \in [1..Cardinality(S) -> S] : Range(p) = S}

\* list.remove(x): drops the first element equal to x
RemoveFirst(s, x) ==
    LET i == CHOOSE k \in DOMAIN s : s[k] = x /\ \A j \in 1..(k-1) : s[j] # x
    IN  SubSeq(s, 1, i-1) \o SubSeq(s, i+1, Len(s))

-----------------------------------------------------------------------------
(* Inputs of the registry: the dicts that producers put on the map queues   *)
(* and that the calculator keeps.  A dict is a sequence of <<key, value>>   *)
(* items in insertion order, with pairwise different keys.                  *)

\* attribute tuple of a camera or construction area: attributes[0] is the
\* latitude and attributes[1] the longitude; the trailing fields are absent
CamAttrs == {<<c[1], c[2]>> : c \in Coords}

\* calculator entry: entry[2] is the latitude and entry[3] the longitude
CalcEntries == {<<c[1], c[2], c[1], c[2]>> : c \in Coords}

\* the dicts with one item, or with two items under the two keys of K
DictsOver(K, V) ==
    {<<<<k, v>>>> : k \in K, v \in V}
    \cup {<<<<k1, v1>>, <<k2, v2>>>> :
             k1 \in {k \in K : k[2] = "A"}, k2 \in {k \in K : k[2] = "B"},
             v1 \in V, v2 \in V}

CamDicts == DictsOver(CamKeys, CamAttrs)

\* keys of one or two words over the words the icon is chosen from
IconWords == {"FIX", "TRAFFIC", "DISTANCE", "MOBILE"}
IconKeys == {<<w>> : w \in IconWords} \cup {<<w, v>> : w \in IconWords, v \in IconWords}

\* attribute tuples with all twelve fields, and the same cut after the
\* coordinate, the name and the maxspeed
FullAttrs == {<<c[1], c[2], 0, 0, 0, 0, 0, name, "north", "50 Km/h", "@ Wet", "tunnel">> :
                 c \in Coords, name \in {"cam 1", "cam 2"}}
LongAttrs == {SubSeq(a, 1, n) : a \in FullAttrs, n \in {2, 8, 10, 12}}

\* batches of one dict under every key, and of two dicts under one key
IconBatches == {<<<<<<k, a>>>>>> : k \in IconKeys, a \in CamAttrs}
TupleBatches == {<<<<<<k, a1>>>>, <<<<k, a2>>>>>> :
                    k \in {<<"FIX", "A">>}, a1 \in LongAttrs, a2 \in LongAttrs}
CalcCamDicts == DictsOver(CamKeys, CalcEntries)
ConstructionDicts == DictsOver(ConstructionKeys, CamAttrs)
CalcConstructionDicts == DictsOver(ConstructionKeys, CalcEntries)

-----------------------------------------------------------------------------
(* Maps: building the renderable lists *)

\* attributes[n-1] if len(attributes) >= n else the placeholder
At(attributes, n, placeholder) ==
    IF Len(attributes) >= n THEN attributes[n] ELSE placeholder

\* float(coord): the coordinates of the model are numbers already, and the
\* conversion of a number keeps its value
ToFloat(x) == x

SpeedCamTuple(key, a) ==
    <<key, a[1], a[2], At(a, 8, "---"), At(a, 9, "---"), At(a, 10, "--- Km/h"),
      At(a, 11, "@ Always"), At(a, 12, "---")>>

ConstructionTuple(key, a) ==
    <<key, a[1], a[2], At(a, 8, "---"), At(a, 9, "---"), At(a, 10, "---"),
      At(a, 11, "---")>>

\* get_unique_speed_cam_list that keeps one tuple per key and coordinate
get_unique_speed_cam_list_ByCoordinate(processing_cams) ==
    LET all == UNION {{SpeedCamTuple(d[j][1], d[j][2]) : j \in DOMAIN d} :
                         d \in Range(processing_cams)}
        Same(t, u) == t[1] = u[1] /\ t[2] = u[2] /\ t[3] = u[3]
    IN  {t \in all : t = CHOOSE u \in all : Same(t, u)}

\* get_unique_speed_cam_list: set(speed_cams) over the items of the consumed
\* dicts; list(set(...)) lists that set in any order (see Perms)
get_unique_speed_cam_list(processing_cams) ==
    UNION {{SpeedCamTuple(d[j][1], d[j][2]) : j \in DOMAIN d} :
              d \in Range(processing_cams)}

get_unique_constrcution_areas_list(processing_cams) ==
    UNION {{ConstructionTuple(d[j][1], d[j][2]) : j \in DOMAIN d} :
              d \in Range(processing_cams)}

\* str.find: the lowest 0-based position at which sub occurs in s, or -1
Find(s, sub) ==
    LET at == {i \in 0..(Len(s) - Len(sub)) : SubSeq(s, i + 1, i + Len(sub)) = sub}
    IN  IF at = {} THEN -1 ELSE CHOOSE i \in at : \A j \in at : i <= j

\* IconOf that tests whether the key contains the word
IconOf_Contains(key) ==
    IF Find(key, <<"FIX">>) # -1 THEN "FIX_ICON"
    ELSE IF Find(key, <<"TRAFFIC">>) # -1 THEN "TRAFFIC_ICON"
    ELSE IF Find(key, <<"DISTANCE">>) # -1 THEN "DISTANCE_ICON"
    ELSE "MOBILE_ICON"

\* the icon of a camera marker: the chain of key.find(word) == 0
IconOf(key) ==
    IF Find(key, <<"FIX">>) = 0 THEN "FIX_ICON"
    ELSE IF Find(key, <<"TRAFFIC">>) = 0 THEN "TRAFFIC_ICON"
    ELSE IF Find(key, <<"DISTANCE">>) = 0 THEN "DISTANCE_ICON"
    ELSE "MOBILE_ICON"

\* a marker object: id is its identity, two markers with the same coordinate
\* are still two objects
Marker(id, lat, lon, source) == [id |-> id, lat |-> lat, lon |-> lon, source |-> source]

AlreadyRendered(rendered, marker) ==
    \E m \in Range(rendered) : m.lon = marker.lon /\ m.lat = marker.lat

\* one pass of the inner loop of draw_speed_cams: the branch on any(markers)
\* only logs, and the marker is appended in both cases
AddCamMarker(rendered, attributes, id) ==
    LET marker == Marker(id, ToFloat(attributes[2]), ToFloat(attributes[3]),
                         IconOf(attributes[1]))
    IN  Append(rendered, marker)

\* AddConstructionMarker without the continue on a rendered coordinate
AddConstructionMarker_NoContinue(rendered, attributes, id) ==
    Append(rendered, Marker(id, ToFloat(attributes[2]), ToFloat(attributes[3]),
                            "CONSTRUCTION_MARKER"))

\* one pass of the loop of draw_construction_areas: continue on a rendered
\* coordinate
AddConstructionMarker(rendered, attributes, id) ==
    LET marker == Marker(id, ToFloat(attributes[2]), ToFloat(attributes[3]),
                         "CONSTRUCTION_MARKER")
    IN  IF AlreadyRendered(rendered, marker) THEN rendered
        ELSE Append(rendered, marker)

RECURSIVE DrawCams(_, _, _)
DrawCams(rendered, cameras, id) ==
    IF cameras = <<>> THEN rendered
    ELSE DrawCams(AddCamMarker(rendered, Head(cameras), id), Tail(cameras), id + 1)

RECURSIVE DrawConstructions(_, _, _)
DrawConstructions(rendered, areas, id) ==
    IF areas = <<>> THEN rendered
    ELSE DrawConstructions(AddConstructionMarker(rendered, Head(areas), id),
                           Tail(areas), id + 1)

-----------------------------------------------------------------------------
(* Maps: removal, reconciled with the calculator *)

\* the for loops of remove_camera_from_calculator_thread and of
\* remove_construction_area_from_calculator_thread: the outer loop walks
\* the live list by index while the body removes from it; the inner loop
\* walks the items of the dict at that index.  list.remove raises
\* ValueError when no equal dict is left in the list.
RECURSIVE CalcInner(_, _, _, _, _)
CalcInner(list, d, j, longitude, latitude) ==
    IF j > Len(d) THEN [l |-> list, raised |-> FALSE]
    ELSE LET entry == d[j][2]
             lat == entry[3]
             lon == entry[4]
         IN  IF lat = latitude /\ lon = longitude
             THEN IF d \in Range(list)
                  THEN CalcInner(RemoveFirst(list, d), d, j + 1, longitude, latitude)
                  ELSE [l |-> list, raised |-> TRUE]
             ELSE CalcInner(list, d, j + 1, longitude, latitude)

RECURSIVE CalcOuter(_, _, _, _)
CalcOuter(list, i, longitude, latitude) ==
    IF i > Len(list) THEN [l |-> list, raised |-> FALSE]
    ELSE LET r == CalcInner(list, list[i], 1, longitude, latitude)
         IN  IF r.raised THEN r ELSE CalcOuter(r.l, i + 1, longitude, latitude)

remove_camera_from_calculator_thread(calc, longitude, latitude) ==
    CalcOuter(calc, 1, longitude, latitude)

remove_construction_area_from_calculator_thread(calc, longitude, latitude) ==
    CalcOuter(calc, 1, longitude, latitude)

\* the loop of remove_marker_from_map over the filtered list `markers`
RECURSIVE RemoveMarkers(_, _, _)
RemoveMarkers(ms, calc, todo) ==
    IF todo = <<>> THEN [ms |-> ms, calc |-> calc, raised |-> FALSE]
    ELSE LET marker_to_delete == Head(todo)
             r == remove_camera_from_calculator_thread(
                      calc, marker_to_delete.lon, marker_to_delete.lat)
         IN  IF r.raised THEN [ms |-> ms, calc |-> r.l, raised |-> TRUE]
             ELSE RemoveMarkers(
                      IF marker_to_delete \in Range(ms)
                      THEN RemoveFirst(ms, marker_to_delete) ELSE ms,
                      r.l, Tail(todo))

\* remove_marker_from_map that reconciles the calculator before it looks
\* for the markers
remove_marker_from_map_CalcFirst(ms, calc, lon, lat) ==
    LET matching == SelectSeq(ms, LAMBDA m : m.lon = lon /\ m.lat = lat)
        r == remove_camera_from_calculator_thread(calc, lon, lat)
    IN  IF r.raised THEN [ms |-> ms, calc |-> r.l, raised |-> TRUE]
        ELSE RemoveMarkers(ms, r.l, matching)

remove_marker_from_map(ms, calc, lon, lat) ==
    LET matching == SelectSeq(ms, LAMBDA m : m.lon = lon /\ m.lat = lat)
    IN  RemoveMarkers(ms, calc, matching)

\* the loop of remove_all_construction_markers: it walks the live list
\* markers_construction_areas by index and removes from it in the body
RECURSIVE RemoveAllLoop(_, _, _)
RemoveAllLoop(ms, calc, i) ==
    IF i > Len(ms) THEN [ms |-> ms, calc |-> calc, raised |-> FALSE]
    ELSE LET marker == ms[i]
             ms2 == RemoveFirst(ms, marker)
             r == remove_construction_area_from_calculator_thread(
                      calc, marker.lon, marker.lat)
         IN  IF r.raised THEN [ms |-> ms2, calc |-> r.l, raised |-> TRUE]
             ELSE RemoveAllLoop(ms2, r.l, i + 1)

remove_all_construction_markers(ms, calc) == RemoveAllLoop(ms, calc, 1)

-----------------------------------------------------------------------------
(* The registry as a state machine *)

\* `again` marks a draw_speed_cams call that renders the batch of the call
\* before it once more
NoOp(name) ==
    [op |-> name, arg |-> <<>>, pre_m |-> <<>>, pre_c |-> <<>>, raised |-> FALSE,
     again |-> FALSE]

InitRegVars ==
    /\ markers_cams = <<>>
    /\ markers_construction_areas = <<>>
    /\ speed_cam_dict = <<>>
    /\ construction_areas = <<>>
    /\ osm_queue = <<>>
    /\ cloud_queue = <<>>
    /\ db_queue = <<>>
    /\ construction_queue = <<>>
    /\ nextMarker = 1
    /\ produced = 0
    /\ last = NoOp("init")

\* a producer puts a camera dict on the live, cloud or database queue
ProduceOsm ==
    /\ produced < MaxProducedDicts
    /\ \E d \in CamDicts : osm_queue' = Append(osm_queue, d)
    /\ produced' = produced + 1
    /\ last' = NoOp("produce")
    /\ UNCHANGED <<markers_cams, markers_construction_areas, speed_cam_dict,
                   construction_areas, cloud_queue, db_queue, construction_queue,
                   nextMarker>>
    /\ UNCHANGED notReg

ProduceCloud ==
    /\ produced < MaxProducedDicts
    /\ \E d \in CamDicts : cloud_queue' = Append(cloud_queue, d)
    /\ produced' = produced + 1
    /\ last' = NoOp("produce")
    /\ UNCHANGED <<markers_cams, markers_construction_areas, speed_cam_dict,
                   construction_areas, osm_queue, db_queue, construction_queue,
                   nextMarker>>
    /\ UNCHANGED notReg

ProduceDb ==
    /\ produced < MaxProducedDicts
    /\ \E d \in CamDicts : db_queue' = Append(db_queue, d)
    /\ produced' = produced + 1
    /\ last' = NoOp("produce")
    /\ UNCHANGED <<markers_cams, markers_construction_areas, speed_cam_dict,
                   construction_areas, osm_queue, cloud_queue, construction_queue,
                   nextMarker>>
    /\ UNCHANGED notReg

ProduceConstruction ==
    /\ produced < MaxProducedDicts
    /\ \E d \in ConstructionDicts :
          construction_queue' = Append(construction_queue, d)
    /\ produced' = produced + 1
    /\ last' = NoOp("produce")
    /\ UNCHANGED <<markers_cams, markers_construction_areas, speed_cam_dict,
                   construction_areas, osm_queue, cloud_queue, db_queue, nextMarker>>
    /\ UNCHANGED notReg

\* the producers put the dicts of the batch that draw_speed_cams has just
\* rendered on their queues once more
ProduceSameBatch ==
    /\ produced < MaxProducedDicts
    /\ last.op = "draw_speed_cams"
    /\ last.arg # <<<<>>, <<>>, <<>>>>
    /\ osm_queue = <<>> /\ cloud_queue = <<>> /\ db_queue = <<>>
    /\ osm_queue' = last.arg[1]
    /\ cloud_queue' = last.arg[2]
    /\ db_queue' = last.arg[3]
    /\ produced' = produced + 1
    /\ last' = [NoOp("produce_again") EXCEPT !.arg = last.arg]
    /\ UNCHANGED <<markers_cams, markers_construction_areas, speed_cam_dict,
                   construction_areas, construction_queue, nextMarker>>
    /\ UNCHANGED notReg

\* the calculator registers the cameras of a lookup
CalculatorAddCameras ==
    /\ Len(speed_cam_dict) < MaxCalcDicts
    /\ \E d \in CalcCamDicts : speed_cam_dict' = Append(speed_cam_dict, d)
    /\ last' = NoOp("calculator")
    /\ UNCHANGED <<markers_cams, markers_construction_areas, construction_areas,
                   osm_queue, cloud_queue, db_queue, construction_queue,
                   nextMarker, produced>>
    /\ UNCHANGED notReg

CalculatorAddConstructionAreas ==
    /\ Len(construction_areas) < MaxCalcDicts
    /\ \E d \in CalcConstructionDicts :
          construction_areas' = Append(construction_areas, d)
    /\ last' = NoOp("calculator")
    /\ UNCHANGED <<markers_cams, markers_construction_areas, speed_cam_dict,
                   osm_queue, cloud_queue, db_queue, construction_queue,
                   nextMarker, produced>>
    /\ UNCHANGED notReg

\* draw_speed_cams: the three consumes empty the three queues, then the
\* three lists are rendered in the order live, cloud, database
draw_speed_cams ==
    /\ \E p1 \in Perms(get_unique_speed_cam_list(osm_queue)),
          p2 \in Perms(get_unique_speed_cam_list(cloud_queue)),
          p3 \in Perms(get_unique_speed_cam_list(db_queue)) :
          LET to_be_drawn == p1 \o p2 \o p3
              drawn == DrawCams(markers_cams, to_be_drawn, nextMarker)
          IN  /\ markers_cams' = drawn
              /\ nextMarker' = nextMarker + Len(to_be_drawn)
              /\ last' = [NoOp("draw_speed_cams") EXCEPT
                             !.arg = <<osm_queue, cloud_queue, db_queue>>,
                             !.pre_m = markers_cams,
                             !.again = (last.op = "produce_again")]
    /\ osm_queue' = <<>>
    /\ cloud_queue' = <<>>
    /\ db_queue' = <<>>
    /\ UNCHANGED <<markers_construction_areas, speed_cam_dict, construction_areas,
                   construction_queue, produced>>
    /\ UNCHANGED notReg

draw_construction_areas ==
    /\ \E p \in Perms(get_unique_constrcution_areas_list(construction_queue)) :
          /\ markers_construction_areas' =
                 DrawConstructions(markers_construction_areas, p, nextMarker)
          /\ nextMarker' = nextMarker + Len(p)
          /\ last' = [NoOp("draw_construction_areas") EXCEPT
                         !.arg = p, !.pre_m = markers_construction_areas]
    /\ construction_queue' = <<>>
    /\ UNCHANGED <<markers_cams, speed_cam_dict, construction_areas, osm_queue,
                   cloud_queue, db_queue, produced>>
    /\ UNCHANGED notReg

RemoveMarkerFromMap ==
    \E c \in Coords :
       LET lat == c[1]
           lon == c[2]
           r == remove_marker_from_map(markers_cams, speed_cam_dict, lon, lat)
       IN  /\ markers_cams' = r.ms
           /\ speed_cam_dict' = r.calc
           /\ last' = [op |-> "remove_marker_from_map", arg |-> <<lon, lat>>,
                       pre_m |-> markers_cams, pre_c |-> speed_cam_dict,
                       raised |-> r.raised, again |-> FALSE]
           /\ UNCHANGED <<markers_construction_areas, construction_areas, osm_queue,
                          cloud_queue, db_queue, construction_queue, nextMarker,
                          produced>>
           /\ UNCHANGED notReg

RemoveAllConstructionMarkers ==
    LET r == remove_all_construction_markers(markers_construction_areas,
                                             construction_areas)
    IN  /\ markers_construction_areas' = r.ms
        /\ construction_areas' = r.calc
        /\ last' = [op |-> "remove_all_construction_markers", arg |-> <<>>,
                    pre_m |-> markers_construction_areas,
                    pre_c |-> construction_areas, raised |-> r.raised,
                    again |-> FALSE]
        /\ UNCHANGED <<markers_cams, speed_cam_dict, osm_queue, cloud_queue,
                       db_queue, construction_queue, nextMarker, produced>>
        /\ UNCHANGED notReg

-----------------------------------------------------------------------------
(* Worker lifecycle: the flags both run loops read.  They are written by    *)
(* the application, outside the two workers.                                *)

InitLife ==
    /\ terminate = FALSE
    /\ resumed = TRUE
    /\ run_in_back_ground = FALSE

\* the shared stop signal: cond.terminate becomes true and stays true
SetTerminate ==
    /\ ~terminate
    /\ terminate' = TRUE
    /\ UNCHANGED <<resumed, run_in_back_ground>>
    /\ UNCHANGED notLife

\* the items of a voice queue, marked as produced before a pause
MarkStale(q) == [i \in DOMAIN q |-> [q[i] EXCEPT !.stale = TRUE]]

\* the application pauses: isResumed() becomes false (the mark on the queued
\* items records that they were produced before this pause)
Pause ==
    /\ resumed
    /\ resumed' = FALSE
    /\ gpssignalqueue' = MarkStale(gpssignalqueue)
    /\ maxspeedexceededqueue' = MarkStale(maxspeedexceededqueue)
    /\ onlinequeue' = MarkStale(onlinequeue)
    /\ arqueue' = MarkStale(arqueue)
    /\ UNCHANGED <<terminate, run_in_back_ground>>
    /\ UNCHANGED <<cv_voice, vpc, voice_entry, lock, ai_voice_prompts, clock,
                   playing, speaking, nproduced, started, finished, vFinalCleared>>
    /\ UNCHANGED <<regVars, osmVars, uiVars, histVars>>

Resume ==
    /\ ~resumed
    /\ resumed' = TRUE
    /\ UNCHANGED <<terminate, run_in_back_ground>>
    /\ UNCHANGED notLife

\* the application goes to the background and comes back; main_event is set
\* when it is in the foreground
AppBackground ==
    /\ ~run_in_back_ground
    /\ run_in_back_ground' = TRUE
    /\ UNCHANGED <<terminate, resumed>>
    /\ UNCHANGED notLife

AppForeground ==
    /\ run_in_back_ground
    /\ run_in_back_ground' = FALSE
    /\ UNCHANGED <<terminate, resumed>>
    /\ UNCHANGED notLife

-----------------------------------------------------------------------------
(* Event queues (one lock and condition per consumer; FIFO)                 *)

\* produce(item): acquire, append, notify, release
QProduce(q, x) == Append(q, x)

\* consume(): with the lock held, wait while empty, then pop the front item;
\* the lock stays held until the caller releases it
QFront(q) == Head(q)
QPop(q) == Tail(q)

\* clear(): acquire, drop everything, release
QClear(q) == <<>>

-----------------------------------------------------------------------------
(* VoicePromptThread *)

None == "None"

BASE_PATH(file) == <<"sounds", file>>

\* the trigger names of the if/elif chain of process()
Triggers ==
    {"EXIT_APPLICATION", "ADDED_POLICE", "ADDING_POLICE_FAILED",
     "STOP_APPLICATION", "OSM_DATA_ERROR", "INTERNET_CONN_FAILED", "HAZARD",
     "EMPTY_DATASET_FROM_SERVER", "LOW_DOWNLOAD_DATA_RATE", "GPS_OFF",
     "GPS_LOW", "GPS_ON", "SPEEDCAM_BACKUP", "SPEEDCAM_REINSERT", "FIX_100",
     "TRAFFIC_100", "MOBILE_100", "DISTANCE_100", "FIX_300", "TRAFFIC_300",
     "MOBILE_300", "DISTANCE_300", "FIX_500", "TRAFFIC_500", "MOBILE_500",
     "DISTANCE_500", "FIX_1000", "TRAFFIC_1000", "MOBILE_1000",
     "DISTANCE_1000", "FIX_NOW", "TRAFFIC_NOW", "MOBILE_NOW", "DISTANCE_NOW",
     "CAMERA_AHEAD", "WATER", "ACCESS_CONTROL", "POI_SUCCESS", "POI_FAILED",
     "NO_ROUTE", "ROUTE_STOPPED", "POI_REACHED", "ANGLE_MISMATCH", "AR_HUMAN"}

\* the if/elif chain of process() in static mode: trigger -> sound
SoundOf(e) ==
    CASE e = "EXIT_APPLICATION" -> BASE_PATH("app_exit.wav")
      [] e = "ADDED_POLICE" -> BASE_PATH("police_added.wav")
      [] e = "ADDING_POLICE_FAILED" -> BASE_PATH("police_failed.wav")
      [] e = "STOP_APPLICATION" -> BASE_PATH("app_stopped.wav")
      [] e = "OSM_DATA_ERROR" -> None
      [] e = "INTERNET_CONN_FAILED" -> BASE_PATH("inet_failed.wav")
      [] e = "HAZARD" -> BASE_PATH("hazard.wav")
      [] e = "EMPTY_DATASET_FROM_SERVER" -> None
      [] e = "LOW_DOWNLOAD_DATA_RATE" -> BASE_PATH("low_download_rate.wav")
      [] e = "GPS_OFF" -> BASE_PATH("gps_off.wav")
      [] e = "GPS_LOW" -> BASE_PATH("gps_weak.wav")
      [] e = "GPS_ON" -> BASE_PATH("gps_established.wav")
      [] e = "SPEEDCAM_BACKUP" -> BASE_PATH("camera_backup.wav")
      [] e = "SPEEDCAM_REINSERT" -> BASE_PATH("speed_cam_reinserted.wav")
      [] e = "FIX_100" -> BASE_PATH("fix_100.wav")
      [] e = "TRAFFIC_100" -> BASE_PATH("traffic_100.wav")
      [] e = "MOBILE_100" -> BASE_PATH("mobile_100.wav")
      [] e = "DISTANCE_100" -> BASE_PATH("distance_100.wav")
      [] e = "FIX_300" -> BASE_PATH("fix_300.wav")
      [] e = "TRAFFIC_300" -> BASE_PATH("traffic_300.wav")
      [] e = "MOBILE_300" -> BASE_PATH("mobile_300.wav")
      [] e = "DISTANCE_300" -> BASE_PATH("distance_300.wav")
      [] e = "FIX_500" -> BASE_PATH("fix_500.wav")
      [] e = "TRAFFIC_500" -> BASE_PATH("traffic_500.wav")
      [] e = "MOBILE_500" -> BASE_PATH("mobile_500.wav")
      [] e = "DISTANCE_500" -> BASE_PATH("distance_500.wav")
      [] e = "FIX_1000" -> BASE_PATH("fix_1000.wav")
      [] e = "TRAFFIC_1000" -> BASE_PATH("traffic_1000.wav")
      [] e = "MOBILE_1000" -> BASE_PATH("mobile_1000.wav")
      [] e = "DISTANCE_1000" -> BASE_PATH("distance_1000.wav")
      [] e = "FIX_NOW" -> BASE_PATH("fix_now.wav")
      [] e = "TRAFFIC_NOW" -> BASE_PATH("traffic_now.wav")
      [] e = "MOBILE_NOW" -> BASE_PATH("mobile_now.wav")
      [] e = "DISTANCE_NOW" -> BASE_PATH("distance_now.wav")
      [] e = "CAMERA_AHEAD" -> BASE_PATH("camera_ahead.wav")
      [] e = "WATER" -> BASE_PATH("water.wav")
      [] e = "ACCESS_CONTROL" -> BASE_PATH("access_control.wav")
      [] e = "POI_SUCCESS" -> BASE_PATH("poi_success.wav")
      [] e = "POI_FAILED" -> BASE_PATH("poi_failed.wav")
      [] e = "NO_ROUTE" -> BASE_PATH("no_route.wav")
      [] e = "ROUTE_STOPPED" -> BASE_PATH("route_stopped.wav")
      [] e = "POI_REACHED" -> BASE_PATH("poi_reached.wav")
      [] e = "ANGLE_MISMATCH" -> BASE_PATH("angle_mismatch.wav")
      [] e = "AR_HUMAN" -> BASE_PATH("human.wav")
      [] OTHER -> None

\* DialogflowClient.detect_intent: the fulfillment text, or the apology when
\* the request raises
APOLOGY == <<"Sorry, I couldn't process your request.">>
detect_intent(text, raises) ==
    IF raises THEN APOLOGY ELSE <<"fulfillment", text>>

\* the platforms the application runs on
Devices == {"android", "linux"}

\* `platform == "android"` compares the imported module platform with a
\* string, which is never equal
platform_is_android == FALSE

InitVoiceVars ==
    /\ gpssignalqueue = <<>>
    /\ maxspeedexceededqueue = <<>>
    /\ onlinequeue = <<>>
    /\ arqueue = <<>>
    /\ cv_voice = "free"
    /\ vpc = "top"
    /\ voice_entry = None
    /\ lock = FALSE
    /\ clock = <<>>
    /\ playing = <<>>
    /\ speaking = FALSE
    /\ nproduced = 0
    /\ started = <<>>
    /\ finished = 0
    /\ vFinalCleared = {}

\* an item of a voice queue: the trigger, with its production number, its
\* queue and the mark of Pause
VoiceItem(q, e) == [ev |-> e, n |-> nproduced + 1, q |-> q, stale |-> FALSE]

ProduceGps ==
    /\ nproduced < MaxVoiceEvents
    /\ cv_voice = "free"
    /\ \E e \in GpsEvents :
          gpssignalqueue' = QProduce(gpssignalqueue, VoiceItem("gps", e))
    /\ nproduced' = nproduced + 1
    /\ UNCHANGED <<maxspeedexceededqueue, onlinequeue, arqueue, cv_voice, vpc,
                   voice_entry, lock, ai_voice_prompts, clock, playing, speaking,
                   started, finished, vFinalCleared>>
    /\ UNCHANGED notVoice

ProduceMaxSpeed ==
    /\ nproduced < MaxVoiceEvents
    /\ cv_voice = "free"
    /\ \E e \in MaxSpeedEvents :
          maxspeedexceededqueue' =
              QProduce(maxspeedexceededqueue, VoiceItem("maxspeed", e))
    /\ nproduced' = nproduced + 1
    /\ UNCHANGED <<gpssignalqueue, onlinequeue, arqueue, cv_voice, vpc,
                   voice_entry, lock, ai_voice_prompts, clock, playing, speaking,
                   started, finished, vFinalCleared>>
    /\ UNCHANGED notVoice

ProduceOnline ==
    /\ nproduced < MaxVoiceEvents
    /\ cv_voice = "free"
    /\ \E e \in OnlineEvents :
          onlinequeue' = QProduce(onlinequeue, VoiceItem("online", e))
    /\ nproduced' = nproduced + 1
    /\ UNCHANGED <<gpssignalqueue, maxspeedexceededqueue, arqueue, cv_voice, vpc,
                   voice_entry, lock, ai_voice_prompts, clock, playing, speaking,
                   started, finished, vFinalCleared>>
    /\ UNCHANGED notVoice

ProduceAr ==
    /\ nproduced < MaxVoiceEvents
    /\ cv_voice = "free"
    /\ \E e \in ArEvents : arqueue' = QProduce(arqueue, VoiceItem("ar", e))
    /\ nproduced' = nproduced + 1
    /\ UNCHANGED <<gpssignalqueue, maxspeedexceededqueue, onlinequeue, cv_voice,
                   vpc, voice_entry, lock, ai_voice_prompts, clock, playing,
                   speaking, started, finished, vFinalCleared>>
    /\ UNCHANGED notVoice

\* what every step of the worker outside process() leaves alone
VoiceRest == <<cv_voice, voice_entry, lock, ai_voice_prompts, clock, playing,
               speaking, nproduced, started, finished>>

\* VRunTop that does not read cond.terminate
VRunTop_NoCheck ==
    /\ vpc = "top"
    /\ vpc' = "bg"
    /\ UNCHANGED <<voiceQueues, VoiceRest, vFinalCleared>>
    /\ UNCHANGED notVoice

\* run(): while not self.cond.terminate
VRunTop ==
    /\ vpc = "top"
    /\ vpc' = IF terminate THEN "fin_gps" ELSE "bg"
    /\ UNCHANGED <<voiceQueues, VoiceRest, vFinalCleared>>
    /\ UNCHANGED notVoice

\* run(): if self.main_app.run_in_back_ground
VBackground ==
    /\ vpc = "bg"
    /\ vpc' = IF run_in_back_ground THEN "wait" ELSE "chk"
    /\ UNCHANGED <<voiceQueues, VoiceRest, vFinalCleared>>
    /\ UNCHANGED notVoice

\* run(): self.main_app.main_event.wait() returns in the foreground
VWait ==
    /\ vpc = "wait"
    /\ ~run_in_back_ground
    /\ vpc' = "chk"
    /\ UNCHANGED <<voiceQueues, VoiceRest, vFinalCleared>>
    /\ UNCHANGED notVoice

\* run(): if not self.resume.isResumed()
VCheckResumed ==
    /\ vpc = "chk"
    /\ vpc' = IF ~resumed THEN "clr_gps" ELSE "consume"
    /\ vAfter' = IF resumed /\ terminate THEN vAfter + 1 ELSE vAfter
    /\ UNCHANGED <<voiceQueues, VoiceRest, vFinalCleared>>
    /\ UNCHANGED <<regVars, lifeVars, osmVars, uiVars, poi_log, log_errors, device, oAfter>>

\* run(): the four clears of the paused branch
VClearGps ==
    /\ vpc = "clr_gps"
    /\ cv_voice = "free"
    /\ gpssignalqueue' = QClear(gpssignalqueue)
    /\ vpc' = "clr_max"
    /\ UNCHANGED <<maxspeedexceededqueue, onlinequeue, arqueue, VoiceRest,
                   vFinalCleared>>
    /\ UNCHANGED notVoice

VClearMaxSpeed ==
    /\ vpc = "clr_max"
    /\ cv_voice = "free"
    /\ maxspeedexceededqueue' = QClear(maxspeedexceededqueue)
    /\ vpc' = "clr_online"
    /\ UNCHANGED <<gpssignalqueue, onlinequeue, arqueue, VoiceRest, vFinalCleared>>
    /\ UNCHANGED notVoice

VClearOnline ==
    /\ vpc = "clr_online"
    /\ cv_voice = "free"
    /\ onlinequeue' = QClear(onlinequeue)
    /\ vpc' = "clr_ar"
    /\ UNCHANGED <<gpssignalqueue, maxspeedexceededqueue, arqueue, VoiceRest,
                   vFinalCleared>>
    /\ UNCHANGED notVoice

VClearAr ==
    /\ vpc = "clr_ar"
    /\ cv_voice = "free"
    /\ arqueue' = QClear(arqueue)
    /\ vpc' = "top"
    /\ UNCHANGED <<gpssignalqueue, maxspeedexceededqueue, onlinequeue, VoiceRest,
                   vFinalCleared>>
    /\ UNCHANGED notVoice

\* process(): voice_entry = self.voice_prompt_queue.consume_items(self.cv_voice)
\* takes the front item of one of the non-empty queues
VConsume ==
    /\ vpc = "consume"
    /\ cv_voice = "free"
    /\ \/ /\ gpssignalqueue # <<>>
          /\ voice_entry' = QFront(gpssignalqueue)
          /\ gpssignalqueue' = QPop(gpssignalqueue)
          /\ UNCHANGED <<maxspeedexceededqueue, onlinequeue, arqueue>>
       \/ /\ maxspeedexceededqueue # <<>>
          /\ voice_entry' = QFront(maxspeedexceededqueue)
          /\ maxspeedexceededqueue' = QPop(maxspeedexceededqueue)
          /\ UNCHANGED <<gpssignalqueue, onlinequeue, arqueue>>
       \/ /\ onlinequeue # <<>>
          /\ voice_entry' = QFront(onlinequeue)
          /\ onlinequeue' = QPop(onlinequeue)
          /\ UNCHANGED <<gpssignalqueue, maxspeedexceededqueue, arqueue>>
       \/ /\ arqueue # <<>>
          /\ voice_entry' = QFront(arqueue)
          /\ arqueue' = QPop(arqueue)
          /\ UNCHANGED <<gpssignalqueue, maxspeedexceededqueue, onlinequeue>>
    /\ cv_voice' = "voice"
    /\ vpc' = "release"
    /\ UNCHANGED <<lock, ai_voice_prompts, clock, playing, speaking, nproduced,
                   started, finished, vFinalCleared>>
    /\ UNCHANGED notVoice

\* VRelease that keeps the lock of cv_voice
VRelease_Held ==
    /\ vpc = "release"
    /\ vpc' = "spin"
    /\ UNCHANGED <<voiceQueues, VoiceRest, vFinalCleared>>
    /\ UNCHANGED notVoice

\* process(): self.cv_voice.release()
VRelease ==
    /\ vpc = "release"
    /\ cv_voice' = "free"
    /\ vpc' = "spin"
    /\ UNCHANGED <<voiceQueues, voice_entry, lock, ai_voice_prompts, clock,
                   playing, speaking, nproduced, started, finished, vFinalCleared>>
    /\ UNCHANGED notVoice

\* VSpin without the wait on _lock
VSpin_NoWait ==
    /\ vpc = "spin"
    /\ vpc' = "dispatch"
    /\ UNCHANGED <<voiceQueues, VoiceRest, vFinalCleared>>
    /\ UNCHANGED notVoice

\* process(): while self._lock: pass
VSpin ==
    /\ vpc = "spin"
    /\ ~lock
    /\ vpc' = "dispatch"
    /\ UNCHANGED <<voiceQueues, VoiceRest, vFinalCleared>>
    /\ UNCHANGED notVoice

\* process(), NLU mode: detect_intent, then _lock = True and the call of
\* speak_android or speak_desktop
VDispatchNlu ==
    /\ vpc = "dispatch"
    /\ ai_voice_prompts
    /\ \E raises \in BOOLEAN :
          started' = Append(started,
                            [n |-> voice_entry.n, q |-> voice_entry.q,
                             ev |-> voice_entry.ev,
                             what |-> detect_intent(voice_entry.ev, raises),
                             failed |-> raises,
                             by |-> IF platform_is_android THEN "speak_android"
                                    ELSE "speak_desktop"])
    /\ lock' = TRUE
    /\ speaking' = TRUE
    /\ vpc' = "speak"
    /\ UNCHANGED <<voiceQueues, cv_voice, voice_entry, ai_voice_prompts, clock,
                   playing, nproduced, finished, vFinalCleared>>
    /\ UNCHANGED notVoice

\* process(), NLU mode: the speak call returns, then _lock = False
VSpeakReturns ==
    /\ vpc = "speak"
    /\ speaking' = FALSE
    /\ finished' = finished + 1
    /\ lock' = FALSE
    /\ vpc' = "top"
    /\ UNCHANGED <<voiceQueues, cv_voice, voice_entry, ai_voice_prompts, clock,
                   playing, nproduced, started, vFinalCleared>>
    /\ UNCHANGED notVoice

\* process(), NLU mode: the speak call raises; nothing catches it in
\* process() or run(), the thread ends with _lock still set
VSpeakRaises ==
    /\ vpc = "speak"
    /\ speaking' = FALSE
    /\ finished' = finished + 1
    /\ vpc' = "dead"
    /\ UNCHANGED <<voiceQueues, cv_voice, voice_entry, lock, ai_voice_prompts,
                   clock, playing, nproduced, started, vFinalCleared>>
    /\ UNCHANGED notVoice

\* VDispatchStatic that schedules the playback without setting _lock
VDispatchStatic_NoLock ==
    /\ vpc = "dispatch"
    /\ ~ai_voice_prompts
    /\ LET sound == SoundOf(voice_entry.ev)
       IN  IF sound # None
           THEN /\ clock' = Append(clock, [cb |-> "play_sound", sound |-> sound,
                                           item |-> voice_entry])
                /\ UNCHANGED lock
           ELSE UNCHANGED <<lock, clock>>
    /\ vpc' = "top"
    /\ UNCHANGED <<voiceQueues, cv_voice, voice_entry, ai_voice_prompts, playing,
                   speaking, nproduced, started, finished, vFinalCleared>>
    /\ UNCHANGED notVoice

\* VDispatchStatic that sets _lock before the test of sound
VDispatchStatic_LockFirst ==
    /\ vpc = "dispatch"
    /\ ~ai_voice_prompts
    /\ lock' = TRUE
    /\ LET sound == SoundOf(voice_entry.ev)
       IN  IF sound # None
           THEN clock' = Append(clock, [cb |-> "play_sound", sound |-> sound,
                                        item |-> voice_entry])
           ELSE UNCHANGED clock
    /\ vpc' = "top"
    /\ UNCHANGED <<voiceQueues, cv_voice, voice_entry, ai_voice_prompts, playing,
                   speaking, nproduced, started, finished, vFinalCleared>>
    /\ UNCHANGED notVoice

\* process(), static mode: the lookup, then _lock = True and
\* Clock.schedule_once(partial(self.play_sound, sound), 1)
VDispatchStatic ==
    /\ vpc = "dispatch"
    /\ ~ai_voice_prompts
    /\ LET sound == SoundOf(voice_entry.ev)
       IN  IF sound # None
           THEN /\ lock' = TRUE
                /\ clock' = Append(clock, [cb |-> "play_sound", sound |-> sound,
                                           item |-> voice_entry])
           ELSE UNCHANGED <<lock, clock>>
    /\ vpc' = "top"
    /\ UNCHANGED <<voiceQueues, cv_voice, voice_entry, ai_voice_prompts, playing,
                   speaking, nproduced, started, finished, vFinalCleared>>
    /\ UNCHANGED notVoice

\* play_sound on the Clock: SoundLoader.load gives a sound or None.  With a
\* sound: play() and on_sound_playback_finished scheduled after its length.
\* With None: `s.buffer = 16384` raises AttributeError before `if s:` is
\* reached, so the else branch that clears _lock never runs.
play_sound ==
    /\ clock # <<>>
    /\ Head(clock).cb = "play_sound"
    /\ dpc.pc = "idle"
    /\ \/ /\ playing' = Append(playing, Head(clock).sound)
          /\ started' = Append(started,
                               [n |-> Head(clock).item.n, q |-> Head(clock).item.q,
                                ev |-> Head(clock).item.ev,
                                what |-> Head(clock).sound, failed |-> FALSE,
                                by |-> "play"])
          /\ clock' = Append(Tail(clock),
                             [cb |-> "on_sound_playback_finished",
                              sound |-> Head(clock).sound,
                              item |-> Head(clock).item])
       \/ /\ clock' = Tail(clock)
          /\ UNCHANGED <<playing, started>>
    /\ UNCHANGED <<voiceQueues, cv_voice, vpc, voice_entry, lock, ai_voice_prompts,
                   speaking, nproduced, finished, vFinalCleared>>
    /\ UNCHANGED notVoice

\* on_sound_playback_finished on the Clock: stop, unload, _lock = False
on_sound_playback_finished ==
    /\ clock # <<>>
    /\ Head(clock).cb = "on_sound_playback_finished"
    /\ dpc.pc = "idle"
    /\ playing' = RemoveFirst(playing, Head(clock).sound)
    /\ finished' = finished + 1
    /\ lock' = FALSE
    /\ clock' = Tail(clock)
    /\ UNCHANGED <<voiceQueues, cv_voice, vpc, voice_entry, ai_voice_prompts,
                   speaking, nproduced, started, vFinalCleared>>
    /\ UNCHANGED notVoice

\* run(), after the loop: three clears, the log line and self.stop()
VFinalClearGps ==
    /\ vpc = "fin_gps"
    /\ cv_voice = "free"
    /\ gpssignalqueue' = QClear(gpssignalqueue)
    /\ vFinalCleared' = vFinalCleared \cup {"gps"}
    /\ vpc' = "fin_max"
    /\ UNCHANGED <<maxspeedexceededqueue, onlinequeue, arqueue, VoiceRest>>
    /\ UNCHANGED notVoice

VFinalClearMaxSpeed ==
    /\ vpc = "fin_max"
    /\ cv_voice = "free"
    /\ maxspeedexceededqueue' = QClear(maxspeedexceededqueue)
    /\ vFinalCleared' = vFinalCleared \cup {"maxspeed"}
    /\ vpc' = "fin_online"
    /\ UNCHANGED <<gpssignalqueue, onlinequeue, arqueue, VoiceRest>>
    /\ UNCHANGED notVoice

VFinalClearOnline ==
    /\ vpc = "fin_online"
    /\ cv_voice = "free"
    /\ onlinequeue' = QClear(onlinequeue)
    /\ vFinalCleared' = vFinalCleared \cup {"online"}
    /\ vpc' = "stop"
    /\ UNCHANGED <<gpssignalqueue, maxspeedexceededqueue, arqueue, VoiceRest>>
    /\ UNCHANGED notVoice

VStop ==
    /\ vpc = "stop"
    /\ vpc' = "done"
    /\ UNCHANGED <<voiceQueues, VoiceRest, vFinalCleared>>
    /\ UNCHANGED notVoice

-----------------------------------------------------------------------------
(* OSMThread: the map event router *)

isinstance(x, kind) == x.kind = kind

\* the router steps leave the voice worker alone, but for the Clock
voiceButClock == <<voiceQueues, cv_voice, vpc, voice_entry, lock,
                   ai_voice_prompts, playing, speaking, nproduced, started,
                   finished, vFinalCleared>>

InitOsmVars ==
    /\ map_update_queue = <<>>
    /\ poi_queue = <<>>
    /\ cv_map = "free"
    /\ cv_poi = "free"
    /\ opc = "top"
    /\ item = None
    /\ pois = [kind |-> None, elems |-> <<>>]
    /\ trigger = "DRAW_POIS"
    /\ POIS = <<>>
    /\ pois_drawn = FALSE
    /\ last_route = None
    /\ nmap = 0
    /\ npoi = 0
    /\ iter_draws = 0

\* what every step of the router outside process() leaves alone
OsmRest == <<cv_map, cv_poi, item, pois, trigger, POIS, pois_drawn, last_route,
             nmap, npoi, iter_draws>>

ProduceMapUpdate ==
    /\ nmap < MaxMapItems
    /\ cv_map = "free"
    /\ \E i \in MapItems : map_update_queue' = QProduce(map_update_queue, i)
    /\ nmap' = nmap + 1
    /\ UNCHANGED <<poi_queue, cv_map, cv_poi, opc, item, pois, trigger, POIS,
                   pois_drawn, last_route, npoi, iter_draws, clock>>
    /\ UNCHANGED notOsm
    /\ UNCHANGED voiceButClock

ProducePoi ==
    /\ npoi < MaxPoiItems
    /\ cv_poi = "free"
    /\ \E p \in PoiItems : poi_queue' = QProduce(poi_queue, p)
    /\ npoi' = npoi + 1
    /\ UNCHANGED <<map_update_queue, cv_map, cv_poi, opc, item, pois, trigger,
                   POIS, pois_drawn, last_route, nmap, iter_draws, clock>>
    /\ UNCHANGED notOsm
    /\ UNCHANGED voiceButClock

\* run(): while not self.cond.terminate; after the loop the log line and
\* self.stop()
ORunTop ==
    /\ opc = "top"
    /\ opc' = IF terminate THEN "stop" ELSE "bg"
    /\ UNCHANGED <<map_update_queue, poi_queue, OsmRest, clock>>
    /\ UNCHANGED notOsm
    /\ UNCHANGED voiceButClock

\* run(): if self.main_app.run_in_back_ground
OBackground ==
    /\ opc = "bg"
    /\ opc' = IF run_in_back_ground THEN "wait" ELSE "chk"
    /\ UNCHANGED <<map_update_queue, poi_queue, OsmRest, clock>>
    /\ UNCHANGED notOsm
    /\ UNCHANGED voiceButClock

\* run(): self.main_app.main_event.wait() returns in the foreground
OWait ==
    /\ opc = "wait"
    /\ ~run_in_back_ground
    /\ opc' = "chk"
    /\ UNCHANGED <<map_update_queue, poi_queue, OsmRest, clock>>
    /\ UNCHANGED notOsm
    /\ UNCHANGED voiceButClock

\* run(): if not self.resume.isResumed()
OCheckResumed ==
    /\ opc = "chk"
    /\ opc' = IF ~resumed THEN "clr_map" ELSE "consume_map"
    /\ oAfter' = IF resumed /\ terminate THEN oAfter + 1 ELSE oAfter
    /\ UNCHANGED <<map_update_queue, poi_queue, OsmRest, clock>>
    /\ UNCHANGED <<regVars, lifeVars, uiVars, poi_log, log_errors, device, vAfter>>
    /\ UNCHANGED voiceButClock

\* run(): the two clears of the paused branch
OClearMap ==
    /\ opc = "clr_map"
    /\ cv_map = "free"
    /\ map_update_queue' = QClear(map_update_queue)
    /\ opc' = "clr_poi"
    /\ UNCHANGED <<poi_queue, OsmRest, clock>>
    /\ UNCHANGED notOsm
    /\ UNCHANGED voiceButClock

OClearPoi ==
    /\ opc = "clr_poi"
    /\ cv_poi = "free"
    /\ poi_queue' = QClear(poi_queue)
    /\ opc' = "top"
    /\ UNCHANGED <<map_update_queue, OsmRest, clock>>
    /\ UNCHANGED notOsm
    /\ UNCHANGED voiceButClock

\* process(): item = self.map_queue.consume(self.cv_map)
OConsumeMap ==
    /\ opc = "consume_map"
    /\ cv_map = "free"
    /\ map_update_queue # <<>>
    /\ item' = QFront(map_update_queue)
    /\ map_update_queue' = QPop(map_update_queue)
    /\ cv_map' = "osm"
    /\ iter_draws' = 0
    /\ opc' = "release_map"
    /\ UNCHANGED <<poi_queue, cv_poi, pois, trigger, POIS, pois_drawn, last_route,
                   nmap, npoi, clock>>
    /\ UNCHANGED notOsm
    /\ UNCHANGED voiceButClock

\* process(): self.cv_map.release()
OReleaseMap ==
    /\ opc = "release_map"
    /\ cv_map' = "free"
    /\ opc' = "consume_poi"
    /\ UNCHANGED <<map_update_queue, poi_queue, cv_poi, item, pois, trigger, POIS,
                   pois_drawn, last_route, nmap, npoi, iter_draws, clock>>
    /\ UNCHANGED notOsm
    /\ UNCHANGED voiceButClock

\* process(): pois = self.poi_queue.consume(self.cv_poi)
OConsumePoi ==
    /\ opc = "consume_poi"
    /\ cv_poi = "free"
    /\ poi_queue # <<>>
    /\ pois' = QFront(poi_queue)
    /\ poi_queue' = QPop(poi_queue)
    /\ cv_poi' = "osm"
    /\ opc' = "release_poi"
    /\ UNCHANGED <<map_update_queue, cv_map, item, trigger, POIS, pois_drawn,
                   last_route, nmap, npoi, iter_draws, clock>>
    /\ UNCHANGED notOsm
    /\ UNCHANGED voiceButClock

\* process(): self.cv_poi.release()
OReleasePoi ==
    /\ opc = "release_poi"
    /\ cv_poi' = "free"
    /\ opc' = "spin"
    /\ UNCHANGED <<map_update_queue, poi_queue, cv_map, item, pois, trigger, POIS,
                   pois_drawn, last_route, nmap, npoi, iter_draws, clock>>
    /\ UNCHANGED notOsm
    /\ UNCHANGED voiceButClock

\* OSpin that goes on without looking at the flag
OSpin_NoWait ==
    /\ opc = "spin"
    /\ opc' = "pois"
    /\ UNCHANGED <<map_update_queue, poi_queue, OsmRest, clock>>
    /\ UNCHANGED notOsm
    /\ UNCHANGED voiceButClock

\* process(): while self.voice_consumer._lock: pass
OSpin ==
    /\ opc = "spin"
    /\ ~lock
    /\ opc' = "pois"
    /\ UNCHANGED <<map_update_queue, poi_queue, OsmRest, clock>>
    /\ UNCHANGED notOsm
    /\ UNCHANGED voiceButClock

\* calculator.get_osm_data_state(): whether geo-rectangle data is available
get_osm_data_state == BOOLEAN

\* draw_map that schedules draw_pois whatever the trigger
draw_map_AlwaysPois(trig, geo_rectangle_available) ==
    <<[cb |-> "draw_center"], [cb |-> "draw_speed_cams"],
      [cb |-> "draw_construction_areas"], [cb |-> "draw_pois"]>>

\* Maps.draw_map: the callbacks it schedules on the Clock, given the trigger;
\* the branch on geo_rectangle_available is `pass`
draw_map(trig, geo_rectangle_available) ==
    <<[cb |-> "draw_center"], [cb |-> "draw_speed_cams"],
      [cb |-> "draw_construction_areas"]>>
    \o (IF trig = "DRAW_POIS" THEN <<[cb |-> "draw_pois"]>> ELSE <<>>)

\* OHandlePois that leaves the POI working set as it is
OHandlePois_KeepPois ==
    /\ opc = "pois"
    /\ IF isinstance(pois, "list")
       THEN /\ trigger' = "DRAW_POIS"
            /\ UNCHANGED POIS
            /\ pois_drawn' = IF Len(pois.elems) > 0 THEN FALSE ELSE pois_drawn
            /\ \/ /\ \E g \in get_osm_data_state :
                        clock' = clock \o draw_map("DRAW_POIS", g)
                  /\ iter_draws' = iter_draws + 1
                  /\ poi_log' = Append(poi_log, [elems |-> pois.elems,
                                                 redraw |-> TRUE])
                  /\ UNCHANGED log_errors
               \/ /\ UNCHANGED <<clock, iter_draws>>
                  /\ poi_log' = Append(poi_log, [elems |-> pois.elems,
                                                 redraw |-> FALSE])
                  /\ log_errors' = log_errors + 1
            /\ UNCHANGED last_route
       ELSE IF isinstance(pois, "tuple")
       THEN /\ trigger' = "CALCULATE_ROUTE_TO_NEAREST_POI"
            /\ last_route' = pois.elems
            /\ UNCHANGED <<POIS, pois_drawn, clock, iter_draws, poi_log,
                           log_errors>>
       ELSE UNCHANGED <<trigger, POIS, pois_drawn, last_route, clock, iter_draws,
                        poi_log, log_errors>>
    /\ opc' = "item"
    /\ UNCHANGED <<map_update_queue, poi_queue, cv_map, cv_poi, item, pois, nmap,
                   npoi>>
    /\ UNCHANGED <<regVars, lifeVars, uiVars, device, vAfter, oAfter>>
    /\ UNCHANGED voiceButClock

\* OHandlePois without the except clause: the error ends the thread
OHandlePois_Uncaught ==
    /\ opc = "pois"
    /\ IF isinstance(pois, "list")
       THEN /\ trigger' = "DRAW_POIS"
            /\ POIS' = pois.elems
            /\ pois_drawn' = IF Len(pois.elems) > 0 THEN FALSE ELSE pois_drawn
            /\ \/ /\ \E g \in get_osm_data_state :
                        clock' = clock \o draw_map("DRAW_POIS", g)
                  /\ iter_draws' = iter_draws + 1
                  /\ poi_log' = Append(poi_log, [elems |-> pois.elems,
                                                 redraw |-> TRUE])
                  /\ UNCHANGED log_errors
               \/ /\ UNCHANGED <<clock, iter_draws>>
                  /\ poi_log' = Append(poi_log, [elems |-> pois.elems,
                                                 redraw |-> FALSE])
                  /\ log_errors' = log_errors + 1
            /\ UNCHANGED last_route
       ELSE IF isinstance(pois, "tuple")
       THEN /\ trigger' = "CALCULATE_ROUTE_TO_NEAREST_POI"
            /\ last_route' = pois.elems
            /\ UNCHANGED <<POIS, pois_drawn, clock, iter_draws, poi_log,
                           log_errors>>
       ELSE UNCHANGED <<trigger, POIS, pois_drawn, last_route, clock, iter_draws,
                        poi_log, log_errors>>
    /\ opc' = IF log_errors' = log_errors THEN "item" ELSE "dead"
    /\ UNCHANGED <<map_update_queue, poi_queue, cv_map, cv_poi, item, pois, nmap,
                   npoi>>
    /\ UNCHANGED <<regVars, lifeVars, uiVars, device, vAfter, oAfter>>
    /\ UNCHANGED voiceButClock

\* process(): the branch on the type of pois.  The call of draw_map sits in
\* try/except (gaierror, NewConnectionError): when evaluating the call raises
\* one of them, the error is logged and nothing is scheduled.
OHandlePois ==
    /\ opc = "pois"
    /\ IF isinstance(pois, "list")
       THEN /\ trigger' = "DRAW_POIS"
            /\ POIS' = pois.elems
            /\ pois_drawn' = IF Len(pois.elems) > 0 THEN FALSE ELSE pois_drawn
            /\ \/ /\ \E g \in get_osm_data_state :
                        clock' = clock \o draw_map("DRAW_POIS", g)
                  /\ iter_draws' = iter_draws + 1
                  /\ poi_log' = Append(poi_log, [elems |-> pois.elems,
                                                 redraw |-> TRUE])
                  /\ UNCHANGED log_errors
               \/ /\ UNCHANGED <<clock, iter_draws>>
                  /\ poi_log' = Append(poi_log, [elems |-> pois.elems,
                                                 redraw |-> FALSE])
                  /\ log_errors' = log_errors + 1
            /\ UNCHANGED last_route
       ELSE IF isinstance(pois, "tuple")
       THEN /\ trigger' = "CALCULATE_ROUTE_TO_NEAREST_POI"
            /\ last_route' = pois.elems
            /\ UNCHANGED <<POIS, pois_drawn, clock, iter_draws, poi_log,
                           log_errors>>
       ELSE UNCHANGED <<trigger, POIS, pois_drawn, last_route, clock, iter_draws,
                        poi_log, log_errors>>
    /\ opc' = "item"
    /\ UNCHANGED <<map_update_queue, poi_queue, cv_map, cv_poi, item, pois, nmap,
                   npoi>>
    /\ UNCHANGED <<regVars, lifeVars, uiVars, device, vAfter, oAfter>>
    /\ UNCHANGED voiceButClock

\* OHandleItem that returns on "UPDATE" as it does on "EXIT"
OHandleItem_NoDraw ==
    /\ opc = "item"
    /\ IF item = "EXIT" THEN UNCHANGED <<clock, iter_draws, log_errors>>
       ELSE IF item = "UPDATE"
       THEN UNCHANGED <<clock, iter_draws, log_errors>>
       ELSE UNCHANGED <<clock, iter_draws, log_errors>>
    /\ opc' = "top"
    /\ UNCHANGED <<map_update_queue, poi_queue, cv_map, cv_poi, item, pois,
                   trigger, POIS, pois_drawn, last_route, nmap, npoi>>
    /\ UNCHANGED <<regVars, lifeVars, uiVars, poi_log, device, vAfter, oAfter>>
    /\ UNCHANGED voiceButClock

\* process(): if item == 'EXIT': return / elif item == 'UPDATE': draw_map
OHandleItem ==
    /\ opc = "item"
    /\ IF item = "EXIT" THEN UNCHANGED <<clock, iter_draws, log_errors>>
       ELSE IF item = "UPDATE"
       THEN \/ /\ \E g \in get_osm_data_state :
                     clock' = clock \o draw_map(trigger, g)
               /\ iter_draws' = iter_draws + 1
               /\ UNCHANGED log_errors
            \/ /\ UNCHANGED <<clock, iter_draws>>
               /\ log_errors' = log_errors + 1
       ELSE UNCHANGED <<clock, iter_draws, log_errors>>
    /\ opc' = "top"
    /\ UNCHANGED <<map_update_queue, poi_queue, cv_map, cv_poi, item, pois,
                   trigger, POIS, pois_drawn, last_route, nmap, npoi>>
    /\ UNCHANGED <<regVars, lifeVars, uiVars, poi_log, device, vAfter, oAfter>>
    /\ UNCHANGED voiceButClock

OStop ==
    /\ opc = "stop"
    /\ opc' = "done"
    /\ UNCHANGED <<map_update_queue, poi_queue, OsmRest, clock>>
    /\ UNCHANGED notOsm
    /\ UNCHANGED voiceButClock

\* the step is one of the router thread
RouterStep == opc' # opc

-----------------------------------------------------------------------------
(* Maps on the Clock: the callbacks that draw_map schedules.  Kivy runs the  *)
(* callbacks of Clock.schedule_once one at a time on the thread of its main  *)
(* loop; the callbacks scheduled without a timeout run in scheduling order.  *)

MainThread == "MainThread"
RouterThread == "OSMThread"

DrawCallbacks == {"draw_center", "draw_speed_cams", "draw_construction_areas",
                  "draw_pois"}

\* the position in the Clock of the draw callback that runs next
DueIndex ==
    CHOOSE i \in DOMAIN clock :
        clock[i].cb \in DrawCallbacks /\ \A j \in 1..(i-1) : clock[j].cb \notin DrawCallbacks

\* callback cb is the draw callback that runs next, and the thread is free
Due(cb) ==
    /\ dpc.pc = "idle"
    /\ \E i \in DOMAIN clock : clock[i].cb \in DrawCallbacks
    /\ clock[DueIndex].cb = cb

Unschedule == SubSeq(clock, 1, DueIndex - 1) \o SubSeq(clock, DueIndex + 1, Len(clock))

Idle == [pc |-> "idle"]

\* a field that holds None or a number
NoValue == [none |-> TRUE]
Value(x) == [none |-> FALSE, v |-> x]
IsNone(x) == x.none

InitUiVars ==
    /\ markers_pois = <<>>
    /\ markers = <<>>
    /\ centerLat = NoValue
    /\ centerLng = NoValue
    /\ upc = Idle
    /\ first_start = TRUE
    /\ map_view = [lat |-> None, lon |-> None, zoom |-> None, center |-> None]
    /\ dpc = Idle
    /\ mutators = {}

InitHist ==
    /\ poi_log = <<>>
    /\ log_errors = 0
    /\ device = "linux"
    /\ vAfter = 0
    /\ oAfter = 0

\* what the callbacks leave alone
uiButPois == <<markers, centerLat, centerLng, upc, first_start, map_view>>
osmButDrawn == <<map_update_queue, poi_queue, cv_map, cv_poi, opc, item, pois,
                 trigger, POIS, last_route, nmap, npoi, iter_draws>>

\* the center coordinates a caller passes to osm_update_center
CenterLats == {10, 11}
CenterLngs == {20, 21}

\* osm_update_center(lat, lng), called from the thread that tracks the
\* position: self.centerLat = lat
OsmUpdateCenterLat ==
    /\ upc = Idle
    /\ \E lat \in CenterLats, lng \in CenterLngs :
          /\ centerLat' = Value(lat)
          /\ upc' = [pc |-> "lng", lng |-> lng]
    /\ UNCHANGED <<markers_pois, markers, centerLng, first_start, map_view, dpc,
                   mutators>>
    /\ UNCHANGED <<regVars, lifeVars, osmVars, voiceVars, histVars>>

\* osm_update_center: self.centerLng = lng
OsmUpdateCenterLng ==
    /\ upc # Idle
    /\ centerLng' = Value(upc.lng)
    /\ upc' = Idle
    /\ UNCHANGED <<markers_pois, markers, centerLat, first_start, map_view, dpc,
                   mutators>>
    /\ UNCHANGED <<regVars, lifeVars, osmVars, voiceVars, histVars>>

\* draw_center that adds the car marker without removing the one before
draw_center_KeepMarkers ==
    /\ Due("draw_center")
    /\ clock' = Unschedule
    /\ IF IsNone(centerLat) \/ IsNone(centerLng)
       THEN UNCHANGED <<markers, first_start, map_view, mutators>>
       ELSE \E re_center \in BOOLEAN :
               /\ map_view' = [lat |-> centerLat.v, lon |-> centerLng.v,
                               zoom |-> IF first_start THEN 15 ELSE map_view.zoom,
                               center |-> IF first_start \/ re_center
                                          THEN <<centerLat.v, centerLng.v>>
                                          ELSE map_view.center]
               /\ first_start' = FALSE
               /\ markers' = Append(markers, [lat |-> centerLat.v,
                                               lon |-> centerLng.v,
                                               source |-> "CAR_ICON"])
               /\ mutators' = mutators \cup {MainThread}
    /\ UNCHANGED <<markers_pois, centerLat, centerLng, upc, dpc>>
    /\ UNCHANGED <<regVars, lifeVars, osmVars, voiceButClock, histVars>>

\* draw_center: nothing without a center; else the view follows the center,
\* zoom 15 and center_on at the first start (center_on also when the view's
\* re_center is set), and the car marker is replaced
draw_center ==
    /\ Due("draw_center")
    /\ clock' = Unschedule
    /\ IF IsNone(centerLat) \/ IsNone(centerLng)
       THEN UNCHANGED <<markers, first_start, map_view, mutators>>
       ELSE \E re_center \in BOOLEAN :
               /\ map_view' = [lat |-> centerLat.v, lon |-> centerLng.v,
                               zoom |-> IF first_start THEN 15 ELSE map_view.zoom,
                               center |-> IF first_start \/ re_center
                                          THEN <<centerLat.v, centerLng.v>>
                                          ELSE map_view.center]
               /\ first_start' = FALSE
               /\ markers' = <<[lat |-> centerLat.v, lon |-> centerLng.v,
                                source |-> "CAR_ICON"]>>
               /\ mutators' = mutators \cup {MainThread}
    /\ UNCHANGED <<markers_pois, centerLat, centerLng, upc, dpc>>
    /\ UNCHANGED <<regVars, lifeVars, osmVars, voiceButClock, histVars>>

\* draw_speed_cams as a callback of the Clock (`last` keeps the calls that
\* had something to render)
ClockDrawSpeedCams ==
    /\ Due("draw_speed_cams")
    /\ clock' = Unschedule
    /\ \E p1 \in Perms(get_unique_speed_cam_list(osm_queue)),
          p2 \in Perms(get_unique_speed_cam_list(cloud_queue)),
          p3 \in Perms(get_unique_speed_cam_list(db_queue)) :
          LET to_be_drawn == p1 \o p2 \o p3
          IN  /\ markers_cams' = DrawCams(markers_cams, to_be_drawn, nextMarker)
              /\ nextMarker' = nextMarker + Len(to_be_drawn)
              /\ mutators' = IF to_be_drawn = <<>> THEN mutators
                             ELSE mutators \cup {MainThread}
              /\ last' = IF to_be_drawn = <<>> THEN last
                          ELSE [NoOp("draw_speed_cams") EXCEPT
                                   !.arg = <<osm_queue, cloud_queue, db_queue>>,
                                   !.pre_m = markers_cams]
    /\ osm_queue' = <<>>
    /\ cloud_queue' = <<>>
    /\ db_queue' = <<>>
    /\ UNCHANGED <<markers_construction_areas, speed_cam_dict, construction_areas,
                   construction_queue, produced>>
    /\ UNCHANGED <<markers_pois, uiButPois, dpc>>
    /\ UNCHANGED <<lifeVars, osmVars, voiceButClock, histVars>>

\* draw_construction_areas as a callback of the Clock
ClockDrawConstructionAreas ==
    /\ Due("draw_construction_areas")
    /\ clock' = Unschedule
    /\ \E p \in Perms(get_unique_constrcution_areas_list(construction_queue)) :
          LET drawn == DrawConstructions(markers_construction_areas, p, nextMarker)
          IN  /\ markers_construction_areas' = drawn
              /\ nextMarker' = nextMarker + Len(p)
              /\ last' = IF p = <<>> THEN last
                          ELSE [NoOp("draw_construction_areas") EXCEPT
                                   !.arg = p, !.pre_m = markers_construction_areas]
              /\ mutators' = IF drawn = markers_construction_areas THEN mutators
                             ELSE mutators \cup {MainThread}
    /\ construction_queue' = <<>>
    /\ UNCHANGED <<markers_cams, speed_cam_dict, construction_areas, osm_queue,
                   cloud_queue, db_queue, produced>>
    /\ UNCHANGED <<markers_pois, uiButPois, dpc>>
    /\ UNCHANGED <<lifeVars, osmVars, voiceButClock, histVars>>

\* draw_pois, the locals before the loop
PoiLabels == [amenity |-> "---", city |-> "---", post_code |-> "---",
              street |-> "---", name |-> "---", phone |-> "---"]

\* element['tags'][key], or the value the local had when the key is missing
Tag(element, key, old) ==
    IF key \in DOMAIN element.tags THEN element.tags[key] ELSE old

\* the locals after the `if 'tags' in element` block
LabelsAfter(element, lab) ==
    IF "tags" \notin DOMAIN element THEN lab
    ELSE [amenity |-> Tag(element, "amenity", lab.amenity),
          city |-> Tag(element, "addr:city", lab.city),
          post_code |-> Tag(element, "addr:postcode", lab.post_code),
          street |-> Tag(element, "addr:street", lab.street),
          name |-> Tag(element, "name", lab.name),
          phone |-> Tag(element, "phone", lab.phone)]

SourceAfter(element, lab, source) ==
    IF "tags" \notin DOMAIN element THEN source
    ELSE IF LabelsAfter(element, lab).amenity = "hospital" THEN "HOSPITAL_ICON"
    ELSE IF LabelsAfter(element, lab).amenity = "fuel" THEN "GAS_ICON"
    ELSE source

\* the marker of one element: CustomMarkerPois with its bubble (image, label)
PoiMarker(element, lab, image) ==
    [lat |-> element.lat, lon |-> element.lon, source |-> "POI_MARKER",
     image |-> image, label |-> lab]

\* draw_pois without the removal of the rendered POI markers
DrawPoisBegin_NoClear ==
    /\ Due("draw_pois")
    /\ clock' = Unschedule
    /\ IF pois_drawn \/ Len(POIS) = 0
       THEN UNCHANGED <<dpc, mutators>>
       ELSE /\ dpc' = [pc |-> "for", source |-> None, lab |-> PoiLabels]
            /\ UNCHANGED mutators
    /\ UNCHANGED <<markers_pois, uiButPois, pois_drawn>>
    /\ UNCHANGED <<regVars, lifeVars, osmButDrawn, voiceButClock, histVars>>

\* draw_pois up to the loop: return when the batch is drawn or there is
\* nothing to draw, else remove the rendered POI markers
DrawPoisBegin ==
    /\ Due("draw_pois")
    /\ clock' = Unschedule
    /\ IF pois_drawn \/ Len(POIS) = 0
       THEN UNCHANGED <<markers_pois, dpc, mutators>>
       ELSE /\ markers_pois' = <<>>
            /\ dpc' = [pc |-> "for", source |-> None, lab |-> PoiLabels]
            /\ mutators' = IF markers_pois = <<>> THEN mutators
                           ELSE mutators \cup {MainThread}
    /\ UNCHANGED <<uiButPois, pois_drawn>>
    /\ UNCHANGED <<regVars, lifeVars, osmButDrawn, voiceButClock, histVars>>

\* draw_pois: `for element in OSMThread.POIS` takes the list that is the
\* working set now
DrawPoisFor ==
    /\ dpc.pc = "for"
    /\ dpc' = [pc |-> "loop", todo |-> POIS, source |-> dpc.source, lab |-> dpc.lab]
    /\ UNCHANGED <<markers_pois, uiButPois, mutators, pois_drawn, clock>>
    /\ UNCHANGED <<regVars, lifeVars, osmButDrawn, voiceButClock, histVars>>

\* DrawPoisElement that leaves the loop at an element without lat or lon
DrawPoisElement_Break ==
    /\ dpc.pc = "loop"
    /\ dpc.todo # <<>>
    /\ LET element == Head(dpc.todo)
       IN  IF "lat" \notin DOMAIN element \/ "lon" \notin DOMAIN element
           THEN /\ dpc' = [dpc EXCEPT !.todo = <<>>]
                /\ UNCHANGED <<markers_pois, mutators>>
           ELSE LET lab == LabelsAfter(element, dpc.lab)
                    source == SourceAfter(element, dpc.lab, dpc.source)
                IN  /\ \E loaded \in BOOLEAN :
                          markers_pois' =
                              Append(markers_pois,
                                     PoiMarker(element, lab,
                                               IF loaded /\ source # None THEN source
                                               ELSE "UNDEFINED_ICON"))
                    /\ dpc' = [dpc EXCEPT !.todo = Tail(dpc.todo),
                                          !.source = source, !.lab = lab]
                    /\ mutators' = mutators \cup {MainThread}
    /\ UNCHANGED <<uiButPois, pois_drawn, clock>>
    /\ UNCHANGED <<regVars, lifeVars, osmButDrawn, voiceButClock, histVars>>

\* draw_pois, one pass of the loop: an element without lat or lon is skipped;
\* the image falls back to the undefined icon when there is no source or
\* when loading it fails
DrawPoisElement ==
    /\ dpc.pc = "loop"
    /\ dpc.todo # <<>>
    /\ LET element == Head(dpc.todo)
       IN  IF "lat" \notin DOMAIN element \/ "lon" \notin DOMAIN element
           THEN /\ dpc' = [dpc EXCEPT !.todo = Tail(dpc.todo)]
                /\ UNCHANGED <<markers_pois, mutators>>
           ELSE LET lab == LabelsAfter(element, dpc.lab)
                    source == SourceAfter(element, dpc.lab, dpc.source)
                IN  /\ \E loaded \in BOOLEAN :
                          markers_pois' =
                              Append(markers_pois,
                                     PoiMarker(element, lab,
                                               IF loaded /\ source # None THEN source
                                               ELSE "UNDEFINED_ICON"))
                    /\ dpc' = [dpc EXCEPT !.todo = Tail(dpc.todo),
                                          !.source = source, !.lab = lab]
                    /\ mutators' = mutators \cup {MainThread}
    /\ UNCHANGED <<uiButPois, pois_drawn, clock>>
    /\ UNCHANGED <<regVars, lifeVars, osmButDrawn, voiceButClock, histVars>>

\* draw_pois after the loop: OSMThread.pois_drawn = True
DrawPoisEnd ==
    /\ dpc.pc = "loop"
    /\ dpc.todo = <<>>
    /\ pois_drawn' = TRUE
    /\ dpc' = Idle
    /\ UNCHANGED <<markers_pois, uiButPois, mutators, clock>>
    /\ UNCHANGED <<regVars, lifeVars, osmButDrawn, voiceButClock, histVars>>

-----------------------------------------------------------------------------
(* Specifications *)

InitReg ==
    /\ InitRegVars /\ InitLife /\ InitVoiceVars /\ InitOsmVars
    /\ InitUiVars /\ InitHist
    /\ ai_voice_prompts = TRUE

NextReg ==
    \/ ProduceOsm
    \/ ProduceCloud
    \/ ProduceDb
    \/ CalculatorAddCameras
    \/ draw_speed_cams
    \/ RemoveMarkerFromMap

SpecReg == InitReg /\ [][NextReg]_vars

NextCons ==
    \/ ProduceConstruction
    \/ CalculatorAddConstructionAreas
    \/ draw_construction_areas
    \/ RemoveAllConstructionMarkers

SpecCons == InitReg /\ [][NextCons]_vars

\* rendering camera batches, and rendering a batch a second time
NextIdem ==
    \/ ProduceOsm
    \/ ProduceCloud
    \/ ProduceDb
    \/ ProduceSameBatch
    \/ draw_speed_cams

SpecIdem == InitReg /\ [][NextIdem]_vars

\* draw_speed_cams on one batch, waiting on the live, cloud or database queue
InitCams ==
    /\ \E b \in IconBatches \cup TupleBatches :
          \/ osm_queue = b /\ cloud_queue = <<>> /\ db_queue = <<>>
          \/ osm_queue = <<>> /\ cloud_queue = b /\ db_queue = <<>>
          \/ osm_queue = <<>> /\ cloud_queue = <<>> /\ db_queue = b
    /\ markers_cams = <<>>
    /\ markers_construction_areas = <<>>
    /\ speed_cam_dict = <<>>
    /\ construction_areas = <<>>
    /\ construction_queue = <<>>
    /\ nextMarker = 1
    /\ produced = 1
    /\ last = NoOp("produce")
    /\ InitLife /\ InitVoiceVars /\ ai_voice_prompts = TRUE /\ InitOsmVars
    /\ InitUiVars /\ InitHist

NextCams == draw_speed_cams

SpecCams == InitCams /\ [][NextCams]_vars

\* the voice worker in either mode; set_configs() sets NLU mode, the static
\* branch of process() runs when the configuration is switched off
InitVoice ==
    /\ InitRegVars /\ InitLife /\ InitVoiceVars /\ InitOsmVars
    /\ InitUiVars /\ InitHist
    /\ ai_voice_prompts \in BOOLEAN

NextVoice ==
    \/ SetTerminate
    \/ Pause
    \/ Resume
    \/ AppBackground
    \/ AppForeground
    \/ ProduceGps
    \/ ProduceMaxSpeed
    \/ ProduceOnline
    \/ ProduceAr
    \/ VRunTop
    \/ VBackground
    \/ VWait
    \/ VCheckResumed
    \/ VClearGps
    \/ VClearMaxSpeed
    \/ VClearOnline
    \/ VClearAr
    \/ VConsume
    \/ VRelease
    \/ VSpin
    \/ VDispatchNlu
    \/ VSpeakReturns
    \/ VSpeakRaises
    \/ VDispatchStatic
    \/ play_sound
    \/ on_sound_playback_finished
    \/ VFinalClearGps
    \/ VFinalClearMaxSpeed
    \/ VFinalClearOnline
    \/ VStop

SpecVoice == InitVoice /\ [][NextVoice]_vars

\* the triggers the voice worker is given: every name of the chain, and one
\* that the chain does not know
SpeechEvents == Triggers \cup {"SOMETHING_ELSE"}

SpeechItem(e, i) == [ev |-> e, n |-> i, q |-> "gps", stale |-> FALSE]

\* the voice worker of a resumed application in the foreground, on either
\* platform and in either mode, with one or two events waiting
InitSpeech ==
    /\ InitRegVars /\ InitLife /\ InitOsmVars /\ InitUiVars
    /\ poi_log = <<>>
    /\ log_errors = 0
    /\ vAfter = 0
    /\ oAfter = 0
    /\ device \in Devices
    /\ \E e \in SpeechEvents :
          \/ gpssignalqueue = <<SpeechItem(e, 1)>>
          \/ \E f \in {"GPS_ON", "OSM_DATA_ERROR"} :
                gpssignalqueue = <<SpeechItem(e, 1), SpeechItem(f, 2)>>
    /\ maxspeedexceededqueue = <<>>
    /\ onlinequeue = <<>>
    /\ arqueue = <<>>
    /\ nproduced = Len(gpssignalqueue)
    /\ cv_voice = "free"
    /\ vpc = "top"
    /\ voice_entry = None
    /\ lock = FALSE
    /\ ai_voice_prompts \in BOOLEAN
    /\ clock = <<>>
    /\ playing = <<>>
    /\ speaking = FALSE
    /\ started = <<>>
    /\ finished = 0
    /\ vFinalCleared = {}

NextSpeech ==
    \/ VRunTop
    \/ VBackground
    \/ VCheckResumed
    \/ VConsume
    \/ VRelease
    \/ VSpin
    \/ VDispatchNlu
    \/ VSpeakReturns
    \/ VSpeakRaises
    \/ VDispatchStatic
    \/ play_sound
    \/ on_sound_playback_finished

SpecSpeech == InitSpeech /\ [][NextSpeech]_vars

\* the router, started while the voice worker is idle or while a playback
\* of the voice worker is in flight (static mode, GPS_OFF playing)
GpsOffItem == [ev |-> "GPS_OFF", n |-> 1, q |-> "gps", stale |-> FALSE]

InitOSM ==
    /\ InitRegVars /\ InitLife /\ InitOsmVars
    /\ InitUiVars /\ InitHist
    /\ gpssignalqueue = <<>>
    /\ maxspeedexceededqueue = <<>>
    /\ onlinequeue = <<>>
    /\ arqueue = <<>>
    /\ cv_voice = "free"
    /\ vpc = "top"
    /\ speaking = FALSE
    /\ vFinalCleared = {}
    /\ finished = 0
    /\ ai_voice_prompts = FALSE
    /\ \/ /\ lock = FALSE
          /\ voice_entry = None
          /\ clock = <<>>
          /\ playing = <<>>
          /\ nproduced = 0
          /\ started = <<>>
       \/ /\ lock = TRUE
          /\ voice_entry = GpsOffItem
          /\ clock = <<[cb |-> "on_sound_playback_finished",
                        sound |-> SoundOf("GPS_OFF"), item |-> GpsOffItem]>>
          /\ playing = <<SoundOf("GPS_OFF")>>
          /\ nproduced = 1
          /\ started = <<[n |-> 1, q |-> "gps", ev |-> "GPS_OFF",
                          what |-> SoundOf("GPS_OFF"), by |-> "play"]>>

NextOSM ==
    \/ SetTerminate
    \/ Pause
    \/ Resume
    \/ AppBackground
    \/ AppForeground
    \/ ProduceMapUpdate
    \/ ProducePoi
    \/ ORunTop
    \/ OBackground
    \/ OWait
    \/ OCheckResumed
    \/ OClearMap
    \/ OClearPoi
    \/ OConsumeMap
    \/ OReleaseMap
    \/ OConsumePoi
    \/ OReleasePoi
    \/ OSpin
    \/ OHandlePois
    \/ OHandleItem
    \/ OStop
    \/ on_sound_playback_finished

SpecOSM == InitOSM /\ [][NextOSM]_vars

\* the router of a resumed application in the foreground, and the thread of
\* the Clock running the callbacks that draw_map schedules
NextMap ==
    \/ SetTerminate
    \/ ProduceMapUpdate
    \/ ProducePoi
    \/ ORunTop
    \/ OBackground
    \/ OCheckResumed
    \/ OConsumeMap
    \/ OReleaseMap
    \/ OConsumePoi
    \/ OReleasePoi
    \/ OSpin
    \/ OHandlePois
    \/ OHandleItem
    \/ OStop
    \/ on_sound_playback_finished
    \/ draw_center
    \/ ClockDrawSpeedCams
    \/ ClockDrawConstructionAreas
    \/ DrawPoisBegin
    \/ DrawPoisFor
    \/ DrawPoisElement
    \/ DrawPoisEnd

SpecMap == InitOSM /\ [][NextMap]_vars

\* what three draw_map calls of a route-calculation phase have scheduled
ThreeRedraws ==
    draw_map("CALCULATE_ROUTE_TO_NEAREST_POI", FALSE)
    \o draw_map("CALCULATE_ROUTE_TO_NEAREST_POI", FALSE)
    \o draw_map("CALCULATE_ROUTE_TO_NEAREST_POI", FALSE)

\* the thread of the Clock with three redraws to run, while the position
\* is updated through osm_update_center
InitCenter ==
    /\ InitRegVars /\ InitLife /\ InitUiVars /\ InitHist
    /\ gpssignalqueue = <<>>
    /\ maxspeedexceededqueue = <<>>
    /\ onlinequeue = <<>>
    /\ arqueue = <<>>
    /\ nproduced = 0
    /\ cv_voice = "free"
    /\ vpc = "top"
    /\ voice_entry = None
    /\ lock = FALSE
    /\ ai_voice_prompts = FALSE
    /\ clock = ThreeRedraws
    /\ playing = <<>>
    /\ speaking = FALSE
    /\ started = <<>>
    /\ finished = 0
    /\ vFinalCleared = {}
    /\ map_update_queue = <<>>
    /\ poi_queue = <<>>
    /\ nmap = 3
    /\ npoi = 3
    /\ cv_map = "free"
    /\ cv_poi = "free"
    /\ opc = "consume_map"
    /\ item = "UPDATE"
    /\ pois = [kind |-> "tuple", elems |-> <<Hospital>>]
    /\ trigger = "CALCULATE_ROUTE_TO_NEAREST_POI"
    /\ POIS = <<>>
    /\ pois_drawn = FALSE
    /\ last_route = <<Hospital>>
    /\ iter_draws = 1

NextCenter ==
    \/ OsmUpdateCenterLat
    \/ OsmUpdateCenterLng
    \/ draw_center
    \/ ClockDrawSpeedCams
    \/ ClockDrawConstructionAreas

SpecCenter == InitCenter /\ [][NextCenter]_vars

\* the thread of the Clock after the router has handled a POI list and the
\* item "EXIT": the four callbacks of one draw_map call are scheduled
InitPois ==
    /\ InitRegVars /\ InitLife /\ InitUiVars
    /\ gpssignalqueue = <<>>
    /\ maxspeedexceededqueue = <<>>
    /\ onlinequeue = <<>>
    /\ arqueue = <<>>
    /\ nproduced = 0
    /\ cv_voice = "free"
    /\ vpc = "top"
    /\ voice_entry = None
    /\ lock = FALSE
    /\ ai_voice_prompts = FALSE
    /\ playing = <<>>
    /\ speaking = FALSE
    /\ started = <<>>
    /\ finished = 0
    /\ vFinalCleared = {}
    /\ map_update_queue = <<>>
    /\ poi_queue = <<>>
    /\ nmap = 1
    /\ npoi = 1
    /\ cv_map = "free"
    /\ cv_poi = "free"
    /\ opc = "top"
    /\ item = "EXIT"
    /\ \E batch \in PoiBatches :
          /\ pois = [kind |-> "list", elems |-> batch]
          /\ POIS = batch
          /\ poi_log = <<[elems |-> batch, redraw |-> TRUE]>>
    /\ trigger = "DRAW_POIS"
    /\ clock = draw_map("DRAW_POIS", FALSE)
    /\ pois_drawn = FALSE
    /\ last_route = None
    /\ iter_draws = 1
    /\ log_errors = 0
    /\ device = "linux"
    /\ vAfter = 0
    /\ oAfter = 0

NextPois ==
    \/ draw_center
    \/ ClockDrawSpeedCams
    \/ ClockDrawConstructionAreas
    \/ DrawPoisBegin
    \/ DrawPoisFor
    \/ DrawPoisElement
    \/ DrawPoisEnd

SpecPois == InitPois /\ [][NextPois]_vars

\* both workers of a resumed application with the thread of the Clock,
\* started with two voice events, one map-update item and one POI item
\* already produced
InitWorkers ==
    /\ InitRegVars /\ InitLife /\ InitUiVars /\ InitHist
    /\ gpssignalqueue = <<GpsOffItem>>
    /\ maxspeedexceededqueue = <<>>
    /\ onlinequeue = <<>>
    /\ arqueue = <<[ev |-> "AR_HUMAN", n |-> 2, q |-> "ar", stale |-> FALSE]>>
    /\ nproduced = 2
    /\ cv_voice = "free"
    /\ vpc = "top"
    /\ voice_entry = None
    /\ lock = FALSE
    /\ ai_voice_prompts \in BOOLEAN
    /\ clock = <<>>
    /\ playing = <<>>
    /\ speaking = FALSE
    /\ started = <<>>
    /\ finished = 0
    /\ vFinalCleared = {}
    /\ map_update_queue = <<"UPDATE">>
    /\ poi_queue = <<[kind |-> "list", elems |-> <<Hospital>>]>>
    /\ nmap = 1
    /\ npoi = 1
    /\ cv_map = "free"
    /\ cv_poi = "free"
    /\ opc = "top"
    /\ item = None
    /\ pois = [kind |-> None, elems |-> <<>>]
    /\ trigger = "DRAW_POIS"
    /\ POIS = <<>>
    /\ pois_drawn = FALSE
    /\ last_route = None
    /\ iter_draws = 0

NextWorkers ==
    \/ SetTerminate
    \/ AppBackground
    \/ AppForeground
    \/ VRunTop
    \/ VBackground
    \/ VWait
    \/ VCheckResumed
    \/ VConsume
    \/ VRelease
    \/ VSpin
    \/ VDispatchNlu
    \/ VSpeakReturns
    \/ VSpeakRaises
    \/ VDispatchStatic
    \/ play_sound
    \/ on_sound_playback_finished
    \/ VFinalClearGps
    \/ VFinalClearMaxSpeed
    \/ VFinalClearOnline
    \/ VStop
    \/ ORunTop
    \/ OBackground
    \/ OWait
    \/ OCheckResumed
    \/ OConsumeMap
    \/ OReleaseMap
    \/ OConsumePoi
    \/ OReleasePoi
    \/ OSpin
    \/ OHandlePois
    \/ OHandleItem
    \/ OStop
    \/ draw_center
    \/ ClockDrawSpeedCams
    \/ ClockDrawConstructionAreas
    \/ DrawPoisBegin
    \/ DrawPoisFor
    \/ DrawPoisElement
    \/ DrawPoisEnd

SpecWorkers == InitWorkers /\ [][NextWorkers]_vars

\* both workers of a resumed application in the foreground under a fair
\* scheduler: one voice event and one "UPDATE" are in the queues, the POI
\* queue holds a list or nothing, and nothing more is ever produced
InitFair ==
    /\ InitRegVars /\ InitLife /\ InitUiVars /\ InitHist
    /\ gpssignalqueue = <<GpsOffItem>>
    /\ maxspeedexceededqueue = <<>>
    /\ onlinequeue = <<>>
    /\ arqueue = <<>>
    /\ nproduced = 1
    /\ cv_voice = "free"
    /\ vpc = "top"
    /\ voice_entry = None
    /\ lock = FALSE
    /\ ai_voice_prompts \in BOOLEAN
    /\ clock = <<>>
    /\ playing = <<>>
    /\ speaking = FALSE
    /\ started = <<>>
    /\ finished = 0
    /\ vFinalCleared = {}
    /\ map_update_queue = <<"UPDATE">>
    /\ poi_queue \in {<<>>, <<[kind |-> "list", elems |-> <<Hospital>>]>>}
    /\ nmap = 1
    /\ npoi = Len(poi_queue)
    /\ cv_map = "free"
    /\ cv_poi = "free"
    /\ opc = "top"
    /\ item = None
    /\ pois = [kind |-> None, elems |-> <<>>]
    /\ trigger = "DRAW_POIS"
    /\ POIS = <<>>
    /\ pois_drawn = FALSE
    /\ last_route = None
    /\ iter_draws = 0

\* the steps of the thread of VoicePromptThread
VoiceSteps ==
    \/ VRunTop
    \/ VBackground
    \/ VCheckResumed
    \/ VConsume
    \/ VRelease
    \/ VSpin
    \/ VDispatchNlu
    \/ VSpeakReturns
    \/ VSpeakRaises
    \/ VDispatchStatic
    \/ play_sound
    \/ VFinalClearGps
    \/ VFinalClearMaxSpeed
    \/ VFinalClearOnline
    \/ VStop

\* the steps of the thread of OSMThread
RouterSteps ==
    \/ ORunTop
    \/ OBackground
    \/ OCheckResumed
    \/ OConsumeMap
    \/ OReleaseMap
    \/ OConsumePoi
    \/ OReleasePoi
    \/ OSpin
    \/ OHandlePois
    \/ OHandleItem
    \/ OStop

\* the callbacks that the main loop of Kivy runs from the Clock
ClockSteps ==
    \/ on_sound_playback_finished
    \/ draw_center
    \/ ClockDrawSpeedCams
    \/ ClockDrawConstructionAreas
    \/ DrawPoisBegin
    \/ DrawPoisFor
    \/ DrawPoisElement
    \/ DrawPoisEnd

NextFair ==
    \/ SetTerminate
    \/ VoiceSteps
    \/ RouterSteps
    \/ ClockSteps

\* each thread that can take a step eventually takes one
SpecFair ==
    /\ InitFair /\ [][NextFair]_vars
    /\ WF_<<vpc, lock, playing, speaking, started>>(VoiceSteps)
    /\ WF_opc(RouterSteps)
    /\ WF_<<clock, dpc>>(ClockSteps)

-----------------------------------------------------------------------------
(* Claims about the registry *)

AtCoord(m, lon, lat) == m.lon = lon /\ m.lat = lat

\* the <<key, entry>> items of all dicts of a calculator list, in list order
RECURSIVE ItemsOf(_)
ItemsOf(calc) == IF calc = <<>> THEN <<>> ELSE Head(calc) \o ItemsOf(Tail(calc))

EntryAt(e, lon, lat) == e[2][3] = lat /\ e[2][4] = lon

\* C1: after any sequence of draw_speed_cams calls no two markers of
\* markers_cams have the same (lat, lon).
C1_NoTwoCamMarkersAtOneCoordinate ==
    \A i, j \in DOMAIN markers_cams :
        i # j => ~(markers_cams[i].lat = markers_cams[j].lat
                   /\ markers_cams[i].lon = markers_cams[j].lon)

\* C7: remove_marker_from_map(lon, lat), called with exactly one rendered
\* camera marker and exactly one calculator entry at that coordinate,
\* removes exactly that marker and exactly that entry, and nothing at any
\* other coordinate.
C7_RemovesExactlyOneMarkerAndEntry ==
    (/\ last.op = "remove_marker_from_map"
     /\ Len(SelectSeq(last.pre_m,
                      LAMBDA m : AtCoord(m, last.arg[1], last.arg[2]))) = 1
     /\ Len(SelectSeq(ItemsOf(last.pre_c),
                      LAMBDA e : EntryAt(e, last.arg[1], last.arg[2]))) = 1)
    => /\ markers_cams =
              SelectSeq(last.pre_m, LAMBDA m : ~AtCoord(m, last.arg[1], last.arg[2]))
       /\ ItemsOf(speed_cam_dict) =
              SelectSeq(ItemsOf(last.pre_c),
                        LAMBDA e : ~EntryAt(e, last.arg[1], last.arg[2]))

\* C34: after remove_marker_from_map(lon, lat) has returned, with at least
\* one camera marker rendered at that coordinate before the call, markers_cams
\* holds no marker and calculator.speed_cam_dict no entry at that coordinate.
C34_RemoveLeavesNothingAtTheCoordinate ==
    (/\ last.op = "remove_marker_from_map"
     /\ ~last.raised
     /\ \E m \in Range(last.pre_m) : AtCoord(m, last.arg[1], last.arg[2]))
    => /\ \A m \in Range(markers_cams) : ~AtCoord(m, last.arg[1], last.arg[2])
       /\ \A e \in Range(ItemsOf(speed_cam_dict)) :
             ~EntryAt(e, last.arg[1], last.arg[2])

\* C35: remove_marker_from_map(lon, lat) with no camera marker rendered at
\* that coordinate returns with markers_cams and calculator.speed_cam_dict
\* as they were, also when the calculator holds an entry at that coordinate.
C35_RemoveWithoutMarkerChangesNothing ==
    (/\ last.op = "remove_marker_from_map"
     /\ \A m \in Range(last.pre_m) : ~AtCoord(m, last.arg[1], last.arg[2]))
    => /\ markers_cams = last.pre_m
       /\ speed_cam_dict = last.pre_c
       /\ ~last.raised

\* a removal at a coordinate with a calculator entry and no marker, while a
\* marker is rendered elsewhere
C35_Witness ==
    /\ last.op = "remove_marker_from_map"
    /\ last.pre_m # <<>>
    /\ \A m \in Range(last.pre_m) : ~AtCoord(m, last.arg[1], last.arg[2])
    /\ \E e \in Range(ItemsOf(last.pre_c)) : EntryAt(e, last.arg[1], last.arg[2])
    /\ speed_cam_dict = last.pre_c
    /\ markers_cams = last.pre_m

\* C8: after remove_all_construction_markers returns,
\* markers_construction_areas is empty and calculator.construction_areas
\* holds no entry at the coordinate of a marker rendered before the call.
C8_RemoveAllLeavesNothing ==
    (last.op = "remove_all_construction_markers" /\ ~last.raised)
    => /\ markers_construction_areas = <<>>
       /\ \A m \in Range(last.pre_m) :
             \A e \in Range(ItemsOf(construction_areas)) : ~EntryAt(e, m.lon, m.lat)

\* C11: rendering the same batch of camera attribute tuples twice through
\* draw_speed_cams leaves markers_cams with as many markers as rendering it
\* once.
C11_SameBatchTwiceSameSize ==
    (last.op = "draw_speed_cams" /\ last.again)
    => Len(markers_cams) = Len(last.pre_m)

\* C13: after any sequence of draw_construction_areas calls no two markers of
\* markers_construction_areas have the same (lat, lon), also when two areas
\* with one coordinate arrive in the same batch under different keys.
C13_NoTwoConstructionMarkersAtOneCoordinate ==
    \A i, j \in DOMAIN markers_construction_areas :
        i # j => ~(markers_construction_areas[i].lat = markers_construction_areas[j].lat
                   /\ markers_construction_areas[i].lon = markers_construction_areas[j].lon)

\* draw_construction_areas got two areas with one coordinate under different
\* keys in one batch and rendered the first of them only
C13_Witness ==
    /\ last.op = "draw_construction_areas"
    /\ Len(last.arg) = 2
    /\ last.arg[1][1] # last.arg[2][1]
    /\ last.arg[1][2] = last.arg[2][2] /\ last.arg[1][3] = last.arg[2][3]
    /\ last.pre_m = <<>>
    /\ Len(markers_construction_areas) = 1
    /\ markers_construction_areas[1].lat = last.arg[1][2]
    /\ markers_construction_areas[1].lon = last.arg[1][3]

\* C15: for a coordinate present in both registries, remove_marker_from_map
\* never ends, normally or by an exception, with the camera removed from
\* exactly one of them.
C15_RemovedFromBothOrNeither ==
    (/\ last.op = "remove_marker_from_map"
     /\ \E m \in Range(last.pre_m) : AtCoord(m, last.arg[1], last.arg[2])
     /\ \E e \in Range(ItemsOf(last.pre_c)) : EntryAt(e, last.arg[1], last.arg[2]))
    => ((\E m \in Range(markers_cams) : AtCoord(m, last.arg[1], last.arg[2]))
        <=> (\E e \in Range(ItemsOf(speed_cam_dict)) :
                 EntryAt(e, last.arg[1], last.arg[2])))

\* the dicts that the draw_speed_cams call before consumed, queue by queue
Consumed == last.arg[1] \o last.arg[2] \o last.arg[3]

\* the 8-field tuple of a dict entry, absent fields filled with placeholders
Filled(key, a) ==
    <<key, a[1], a[2],
      IF Len(a) >= 8 THEN a[8] ELSE "---",
      IF Len(a) >= 9 THEN a[9] ELSE "---",
      IF Len(a) >= 10 THEN a[10] ELSE "--- Km/h",
      IF Len(a) >= 11 THEN a[11] ELSE "@ Always",
      IF Len(a) >= 12 THEN a[12] ELSE "---">>

\* the filled tuples of the entries of a list of dicts
FilledOf(q) ==
    UNION {{Filled(d[j][1], d[j][2]) : j \in DOMAIN d} : d \in Range(q)}

\* C28: get_unique_speed_cam_list returns the 8-field tuples of the entries
\* it consumed, absent fields filled with their placeholders, each tuple
\* once: equal entries give one tuple, and entries with equal key and
\* coordinate that differ in another field give one tuple each (so
\* draw_speed_cams appends that many markers).
C28_UniqueByWholeTuple ==
    last.op = "draw_speed_cams" =>
        /\ \A i \in 1..3 :
              get_unique_speed_cam_list(last.arg[i]) = FilledOf(last.arg[i])
        /\ Len(markers_cams) - Len(last.pre_m) = Cardinality(FilledOf(Consumed))

\* two entries under one key at one coordinate, one with the name only and
\* one with all fields, were consumed: two markers
C28_Witness ==
    /\ last.op = "draw_speed_cams"
    /\ Len(Consumed) = 2
    /\ Consumed[1][1][1] = Consumed[2][1][1]
    /\ Len(Consumed[1][1][2]) = 8 /\ Len(Consumed[2][1][2]) = 12
    /\ Consumed[1][1][2] = SubSeq(Consumed[2][1][2], 1, 8)
    /\ Len(markers_cams) = 2

StartsWith(key, word) == Len(key) >= 1 /\ key[1] = word

\* C29: the marker of a camera has the fixed-camera icon when its key starts
\* with FIX, else the traffic-light icon when it starts with TRAFFIC, else
\* the distance icon when it starts with DISTANCE, else the mobile icon, also
\* when one of the words comes later in the key.
C29_IconByKeyPrefix ==
    (last.op = "draw_speed_cams" /\ Len(Consumed) = 1 /\ Len(Consumed[1]) = 1) =>
        LET key == Consumed[1][1][1]
            marker == markers_cams[Len(markers_cams)]
        IN  marker.source =
                IF StartsWith(key, "FIX") THEN "FIX_ICON"
                ELSE IF StartsWith(key, "TRAFFIC") THEN "TRAFFIC_ICON"
                ELSE IF StartsWith(key, "DISTANCE") THEN "DISTANCE_ICON"
                ELSE "MOBILE_ICON"

\* the camera of key MOBILE_FIX was drawn with the mobile icon
C29_Witness ==
    /\ last.op = "draw_speed_cams"
    /\ Len(Consumed) = 1 /\ Len(Consumed[1]) = 1
    /\ Consumed[1][1][1] = <<"MOBILE", "FIX">>
    /\ Len(markers_cams) = 1
    /\ markers_cams[1].source = "MOBILE_ICON"

-----------------------------------------------------------------------------
(* Claims about the voice worker *)

\* playbacks and utterances in flight
InFlight == Len(playing) + (IF speaking THEN 1 ELSE 0)

\* C2: at most one playback or speech synthesis is in flight at any time, and
\* process() starts a new event only with the exclusivity flag clear; the
\* flag stays set for as long as the operation is in flight.
C2_AtMostOneInFlight ==
    /\ InFlight <= 1
    /\ vpc = "dispatch" => (~lock /\ InFlight = 0)
    /\ InFlight = 1 => lock

\* a playback is in flight and process() waits with the next event
C2_Witness ==
    /\ vpc = "spin"
    /\ lock
    /\ Len(playing) = 1

\* C3: whenever the exclusivity flag is set (static mode), something is left
\* that will clear it: a scheduled play_sound or on_sound_playback_finished.
C3_SetFlagHasAClearer ==
    (lock /\ ~ai_voice_prompts) => clock # <<>>

\* C4: while the resumed predicate is false no voice event is played or
\* spoken.
C4_NothingStartedWhilePaused ==
    [][Len(started') > Len(started) => resumed]_vars

\* C5: an event produced before a pause is never handed to process() after
\* the following resume.
C5_NoStaleEventAfterResume ==
    [][(vpc = "consume" /\ vpc' = "release")
          => ~(voice_entry'.stale /\ resumed)]_vars

\* C6: when VoicePromptThread.run ends, the GPS-signal, max-speed-exceeded,
\* online and AR queues have each been cleared after the flag was observed.
C6_FinalDrainClearsEveryQueue ==
    vpc = "done" => vFinalCleared = {"gps", "maxspeed", "online", "ar"}

\* C10: the playbacks of the events of one queue start in production order;
\* in static mode GPS_OFF plays gps_off.wav and GPS_ON gps_established.wav;
\* a playback starts only after every earlier one has finished.
C10_PlaybackInProductionOrder ==
    /\ \A i, j \in DOMAIN started :
          (i < j /\ started[i].q = started[j].q) => started[i].n < started[j].n
    /\ \A i \in DOMAIN started :
          started[i].by = "play" =>
             /\ started[i].what = SoundOf(started[i].ev)
             /\ started[i].ev = "GPS_OFF" => started[i].what = <<"sounds", "gps_off.wav">>
             /\ started[i].ev = "GPS_ON" =>
                   started[i].what = <<"sounds", "gps_established.wav">>
    /\ Len(started) - finished <= 1

\* GPS_OFF then GPS_ON were produced and both playbacks have started
C10_Witness ==
    /\ Len(started) = 2
    /\ started[1].ev = "GPS_OFF" /\ started[1].by = "play" /\ started[1].n = 1
    /\ started[2].ev = "GPS_ON" /\ started[2].by = "play" /\ started[2].n = 2

\* C16: a failure of speech synthesis in NLU mode does not leave process():
\* the worker is never ended by it (and goes on with _lock clear).
C16_SpeakFailureStaysInProcess ==
    vpc # "dead"

\* C26: when the intent resolution fails, detect_intent returns the apology
\* instead of raising, process() speaks the apology, and when that process()
\* step is over the exclusivity flag is clear.
C26_IntentFailureSpeaksApology ==
    \A i \in DOMAIN started :
        started[i].failed =>
            /\ started[i].what = APOLOGY
            /\ started[i].by \in {"speak_android", "speak_desktop"}
            /\ (i = Len(started) /\ vpc # "speak") => ~lock

\* the triggers of the chain that have no asset
NoAsset == {"OSM_DATA_ERROR", "EMPTY_DATASET_FROM_SERVER"}

\* C27: in static mode the dispatch of a trigger schedules at most one
\* playback, and for a trigger with no asset (a name the chain does not
\* know, OSM_DATA_ERROR, EMPTY_DATASET_FROM_SERVER) it schedules none, plays
\* nothing, returns normally and leaves the exclusivity flag clear.
C27_NoAssetIsDroppedSilently ==
    [][(vpc = "dispatch" /\ vpc' # "dispatch" /\ ~ai_voice_prompts)
          => /\ vpc' = "top"
             /\ Len(clock') <= Len(clock) + 1
             /\ (voice_entry.ev \notin Triggers \/ voice_entry.ev \in NoAsset)
                   => /\ clock' = clock
                      /\ playing' = playing
                      /\ started' = started
                      /\ ~lock'
             /\ (voice_entry.ev \in Triggers \ NoAsset)
                   => /\ Len(clock') = Len(clock) + 1
                      /\ clock'[Len(clock')].cb = "play_sound"
                      /\ lock']_vars

\* a trigger the chain does not know was dispatched in static mode: nothing
\* scheduled, nothing started, the flag clear, and the worker is back at its
\* loop test
C27_Witness ==
    /\ ~ai_voice_prompts
    /\ nproduced = 1 /\ gpssignalqueue = <<>> /\ vpc = "top"
    /\ voice_entry.ev = "SOMETHING_ELSE"
    /\ clock = <<>> /\ playing = <<>> /\ started = <<>>
    /\ ~lock

\* C30: in NLU mode the utterance is spoken by speak_android when the
\* application runs on Android and by speak_desktop on every other platform.
C30_BackendFollowsThePlatform ==
    \A i \in DOMAIN started :
        started[i].by \in {"speak_android", "speak_desktop"} =>
            started[i].by = IF device = "android" THEN "speak_android"
                            ELSE "speak_desktop"

-----------------------------------------------------------------------------
(* Claims about the router *)

\* C9: in a process() iteration whose map-update item is "EXIT", draw_map is
\* not called, whatever the POI item of that iteration is.
C9_NoRedrawInExitIteration ==
    (opc \in {"release_map", "consume_poi", "release_poi", "spin", "pois", "item"}
     /\ item = "EXIT")
    => iter_draws = 0

\* what a draw_map call of process() schedules for a full redraw
FullRedraw ==
    <<[cb |-> "draw_center"], [cb |-> "draw_speed_cams"],
      [cb |-> "draw_construction_areas"], [cb |-> "draw_pois"]>>

\* C21: the process() step that handles a POI item that is a list makes that
\* list the POI working set and requests a full map redraw (the four draw
\* callbacks are scheduled), unless the call raises the error that is logged.
C21_ListReplacesPoisAndRequestsRedraw ==
    [][(opc = "pois" /\ opc' # "pois" /\ isinstance(pois, "list"))
          => /\ POIS' = pois.elems
             /\ trigger' = "DRAW_POIS"
             /\ \/ clock' = clock \o FullRedraw /\ log_errors' = log_errors
                \/ clock' = clock /\ log_errors' = log_errors + 1]_vars

\* the list of two POIs was handled: it is the working set and the four
\* callbacks of the redraw are the last ones on the Clock
C21_Witness ==
    /\ opc = "item"
    /\ pois = [kind |-> "list", elems |-> <<Hospital, Fuel>>]
    /\ POIS = <<Hospital, Fuel>>
    /\ poi_log # <<>> /\ poi_log[Len(poi_log)].redraw
    /\ Len(clock) >= 4
    /\ SubSeq(clock, Len(clock) - 3, Len(clock)) = FullRedraw

\* the POI list <<x>> has been drawn by draw_pois: one marker per element,
\* at its coordinate
Renders(ms, elems) ==
    /\ Len(ms) = Len(elems)
    /\ \A i \in DOMAIN ms : ms[i].lat = elems[i].lat /\ ms[i].lon = elems[i].lon

\* C22: pois_drawn is reset by the arrival of a non-empty POI list and by
\* nothing else, an empty list leaves it as it is, it becomes drawn only when
\* draw_pois has rendered a non-empty working set, and a draw_pois call made
\* while it is drawn changes neither markers_pois nor the flag.
C22_PoisDrawnFollowsTheBatch ==
    /\ [][(pois_drawn /\ ~pois_drawn')
             => (opc = "pois" /\ opc' # "pois" /\ isinstance(pois, "list")
                 /\ Len(pois.elems) > 0)]_vars
    /\ [][(opc = "pois" /\ opc' # "pois" /\ isinstance(pois, "list"))
             => pois_drawn' = IF Len(pois.elems) > 0 THEN FALSE ELSE pois_drawn]_vars
    /\ [][(~pois_drawn /\ pois_drawn')
             => (POIS # <<>> /\ Renders(markers_pois, POIS))]_vars
    /\ [][(Due("draw_pois") /\ pois_drawn /\ clock' = Unschedule)
             => (markers_pois' = markers_pois /\ pois_drawn' = pois_drawn)]_vars

\* C23: the process() step that handles a POI item that is a tuple records
\* it as last_route and sets the trigger to route calculation, and no
\* draw_map call is made in that process() iteration.
C23_TupleRecordsRouteAndNoRedraw ==
    /\ [][(opc = "pois" /\ opc' # "pois" /\ isinstance(pois, "tuple"))
             => /\ last_route' = pois.elems
                /\ trigger' = "CALCULATE_ROUTE_TO_NEAREST_POI"
                /\ iter_draws' = 0]_vars
    /\ [][(opc = "item" /\ opc' # "item" /\ isinstance(pois, "tuple"))
             => iter_draws' = 0]_vars

\* C24: the process() step that handles the map-update item "UPDATE" calls
\* draw_map, whatever the POI item of the iteration is: the callbacks of
\* draw_map are scheduled, unless the call raises the error that is logged.
C24_UpdateRequestsRedraw ==
    [][(opc = "item" /\ opc' # "item" /\ item = "UPDATE")
          => \/ /\ clock' = clock \o draw_map(trigger, TRUE)
                /\ Len(clock') >= Len(clock) + 3
                /\ iter_draws' = iter_draws + 1
                /\ log_errors' = log_errors
             \/ clock' = clock /\ log_errors' = log_errors + 1]_vars

\* an iteration with a route tuple and "UPDATE" has ended with its redraw
\* requested
C24_Witness ==
    /\ opc = "top"
    /\ item = "UPDATE"
    /\ isinstance(pois, "tuple")
    /\ iter_draws = 1
    /\ log_errors = 0

\* C25: a redraw that fails with gaierror or NewConnectionError is logged and
\* process() goes on: after the POI branch to the test of the map-update
\* item, with the working set and the trigger it has just set, and after the
\* "UPDATE" branch to the loop test of run(), with both as they were.
C25_RedrawFailureIsLoggedAndSurvived ==
    [][(log_errors' # log_errors)
          => /\ log_errors' = log_errors + 1
             /\ clock' = clock
             /\ opc = "pois" => (/\ opc' = "item"
                                 /\ POIS' = pois.elems
                                 /\ trigger' = "DRAW_POIS")
             /\ opc = "item" => (/\ opc' = "top"
                                 /\ POIS' = POIS
                                 /\ trigger' = trigger)
             /\ opc \in {"pois", "item"}]_vars

\* the redraw for the first POI list failed, and the router is in its next
\* iteration with that list still the working set
C25_Witness ==
    /\ Len(poi_log) = 1
    /\ ~poi_log[1].redraw
    /\ poi_log[1].elems # <<>>
    /\ log_errors >= 1
    /\ opc = "release_map"
    /\ nmap = 2 /\ map_update_queue = <<>>
    /\ POIS = poi_log[1].elems
    /\ trigger = "DRAW_POIS"

\* no draw_pois callback is scheduled or running
PoisQuiet ==
    /\ dpc.pc = "idle"
    /\ \A i \in DOMAIN clock : clock[i].cb # "draw_pois"

\* C12: a POI batch enqueued twice before it is drawn: once both process()
\* steps have handled it and the draw_pois callbacks they scheduled have run,
\* markers_pois holds exactly one marker per POI of the batch, at its
\* coordinate (for every interleaving of the steps and the callbacks).
C12_OneMarkerPerPoiOfTheBatch ==
    (/\ Len(poi_log) = 2
     /\ poi_log[1].elems # <<>>
     /\ poi_log[2].elems = poi_log[1].elems
     /\ poi_log[1].redraw \/ poi_log[2].redraw
     /\ PoisQuiet)
    => /\ Len(markers_pois) = Len(poi_log[1].elems)
       /\ \A i \in DOMAIN markers_pois :
             /\ markers_pois[i].lat = poi_log[1].elems[i].lat
             /\ markers_pois[i].lon = poi_log[1].elems[i].lon

\* the hospital batch was handled twice, both redraws were requested and
\* their callbacks have run: one hospital marker at (10, 20)
C12_Witness ==
    /\ poi_log = <<[elems |-> <<Hospital>>, redraw |-> TRUE],
                   [elems |-> <<Hospital>>, redraw |-> TRUE]>>
    /\ PoisQuiet
    /\ opc = "top"
    /\ pois_drawn
    /\ Len(markers_pois) = 1
    /\ markers_pois[1].lat = 10 /\ markers_pois[1].lon = 20
    /\ markers_pois[1].image = "HOSPITAL_ICON"

\* C14: after any draw_pois call no two markers of markers_pois have the
\* same (lat, lon).
C14_NoTwoPoiMarkersAtOneCoordinate ==
    dpc.pc = "idle" =>
        \A i, j \in DOMAIN markers_pois :
            i # j => ~(markers_pois[i].lat = markers_pois[j].lat
                       /\ markers_pois[i].lon = markers_pois[j].lon)

\* C20: every change of a marker list (markers_cams, markers_pois,
\* markers_construction_areas) is made by the consuming thread of the router.
C20_OnlyTheRouterThreadMutates ==
    mutators \subseteq {RouterThread}

-----------------------------------------------------------------------------
(* Claims about the center of the map *)

\* C40: Maps.markers holds at most one marker, the car marker; a draw_center
\* call with both center fields set leaves the car marker at that center,
\* and one with centerLat or centerLng unset leaves markers, the position of
\* the map and first_start as they were; first_start never becomes true
\* again.
C40_OneCarMarkerAtTheCenter ==
    /\ [](/\ Len(markers) <= 1
          /\ \A i \in DOMAIN markers : markers[i].source = "CAR_ICON")
    /\ [][(/\ Due("draw_center") /\ clock' = Unschedule
            /\ ~IsNone(centerLat) /\ ~IsNone(centerLng))
             => /\ Len(markers') = 1
                /\ markers'[1].lat = centerLat.v
                /\ markers'[1].lon = centerLng.v
                /\ ~first_start']_vars
    /\ [][(/\ Due("draw_center") /\ clock' = Unschedule
            /\ (IsNone(centerLat) \/ IsNone(centerLng)))
             => /\ markers' = markers
                /\ map_view' = map_view
                /\ first_start' = first_start]_vars
    /\ [][~first_start => ~first_start']_vars

\* the three draw_center calls have run, the first one with centerLng still
\* unset, and the car marker sits at the center set last
C40_Witness ==
    /\ \A i \in DOMAIN clock : clock[i].cb # "draw_center"
    /\ upc = Idle
    /\ Len(markers) = 1
    /\ markers[1].lat = 11 /\ markers[1].lon = 21
    /\ centerLat = Value(11) /\ centerLng = Value(21)
    /\ map_view.zoom = 15
    /\ ~first_start

-----------------------------------------------------------------------------
(* Claims about the trigger of the redraws *)

\* C38: a step schedules draw_pois only with the trigger DRAW_POIS; the
\* trigger leaves the route calculation only when the router handles a POI
\* list; and the redraw of an "UPDATE" during a route calculation schedules
\* draw_center, draw_speed_cams and draw_construction_areas and nothing else.
C38_PoisAreScheduledOnlyOnDrawPois ==
    /\ [][LET ScheduledPois(c) ==
                  Cardinality({i \in DOMAIN c : c[i].cb = "draw_pois"})
           IN  ScheduledPois(clock') > ScheduledPois(clock)
               => trigger' = "DRAW_POIS"]_vars
    /\ [][(trigger = "CALCULATE_ROUTE_TO_NEAREST_POI" /\ trigger' # trigger)
             => (opc = "pois" /\ isinstance(pois, "list")
                 /\ trigger' = "DRAW_POIS")]_vars
    /\ [][(/\ RouterStep /\ opc = "item" /\ item = "UPDATE"
            /\ trigger = "CALCULATE_ROUTE_TO_NEAREST_POI"
            /\ iter_draws' > iter_draws)
             => clock' = clock \o <<[cb |-> "draw_center"],
                                    [cb |-> "draw_speed_cams"],
                                    [cb |-> "draw_construction_areas"]>>]_vars

\* a POI list was consumed and drawn, then a route tuple, and the "UPDATE"
\* of that iteration has scheduled its three callbacks
C38_Witness ==
    /\ opc = "top"
    /\ trigger = "CALCULATE_ROUTE_TO_NEAREST_POI"
    /\ isinstance(pois, "tuple")
    /\ item = "UPDATE"
    /\ iter_draws = 1
    /\ Len(poi_log) = 1
    /\ pois_drawn
    /\ clock = <<[cb |-> "draw_center"], [cb |-> "draw_speed_cams"],
                 [cb |-> "draw_construction_areas"]>>

-----------------------------------------------------------------------------
(* Claims about the POI markers *)

HasLatLon(element) == "lat" \in DOMAIN element /\ "lon" \in DOMAIN element

\* C37: the marker that a pass of the loop of draw_pois adds shows '---' for
\* every label field whose tag its own element does not have and the value of
\* the tag otherwise, and its image is the icon of its own element's amenity
\* (the undefined icon when the image cannot be loaded).
C37_LabelsAndIconOfTheOwnElement ==
    [][
    LET LabelKeys == [amenity |-> "amenity", city |-> "addr:city",
                      post_code |-> "addr:postcode", street |-> "addr:street",
                      name |-> "name", phone |-> "phone"]
        HasTag(element, key) ==
            "tags" \in DOMAIN element /\ key \in DOMAIN element.tags
        OwnIcon(element) ==
            IF HasTag(element, "amenity") /\ element.tags["amenity"] = "hospital"
            THEN "HOSPITAL_ICON"
            ELSE IF HasTag(element, "amenity") /\ element.tags["amenity"] = "fuel"
            THEN "GAS_ICON"
            ELSE "UNDEFINED_ICON"
        RendersElement ==
            /\ dpc.pc = "loop" /\ dpc.todo # <<>>
            /\ Len(markers_pois') = Len(markers_pois) + 1
    IN
       RendersElement
         => LET element == Head(dpc.todo)
                marker == markers_pois'[Len(markers_pois')]
            IN  /\ \A f \in DOMAIN LabelKeys :
                      marker.label[f] = IF HasTag(element, LabelKeys[f])
                                        THEN element.tags[LabelKeys[f]]
                                        ELSE "---"
                /\ marker.image \in {OwnIcon(element), "UNDEFINED_ICON"}]_vars

\* C39: when draw_pois has run over a batch, markers_pois holds one marker
\* for every element of the batch that has lat and lon, in the order of the
\* batch, the elements without lat or without lon are left out, and the
\* batch is marked as drawn.
C39_ElementsWithoutCoordinateAreSkipped ==
    LET CoordsOf(seq) == [i \in DOMAIN seq |-> <<seq[i].lat, seq[i].lon>>]
    IN
    (clock = <<>> /\ dpc.pc = "idle" /\ POIS # <<>>)
    => /\ CoordsOf(markers_pois) = CoordsOf(SelectSeq(POIS, HasLatLon))
       /\ pois_drawn

\* a batch with an element without lat between two complete elements has
\* been drawn: two markers
C39_Witness ==
    /\ clock = <<>> /\ dpc.pc = "idle"
    /\ POIS = <<Hospital, PoiNoLat, PoiFull>>
    /\ Len(markers_pois) = 2
    /\ markers_pois[2].lat = 11 /\ markers_pois[2].lon = 21
    /\ pois_drawn

\* C33: when every scheduled draw callback has run, the router is not in
\* the middle of handling a POI item, and the POI list it handled last is
\* non-empty and had its redraw requested, markers_pois holds the markers of
\* that list and pois_drawn is set.
C33_LastBatchIsRendered ==
    LET AllDrawn ==
            /\ dpc.pc = "idle"
            /\ \A i \in DOMAIN clock : clock[i].cb \notin DrawCallbacks
    IN
    (/\ AllDrawn
     /\ opc \notin {"release_poi", "spin", "pois"}
     /\ poi_log # <<>>
     /\ poi_log[Len(poi_log)].redraw
     /\ poi_log[Len(poi_log)].elems # <<>>)
    => /\ Renders(markers_pois, poi_log[Len(poi_log)].elems)
       /\ pois_drawn

-----------------------------------------------------------------------------
(* Claims about both workers *)

\* C31: once the termination flag is set, VoicePromptThread and OSMThread
\* both leave their loop and stop.
C31_TerminateStopsBothWorkers ==
    terminate ~> (vpc = "done" /\ opc = "done")

\* C32: an "UPDATE" at the front of the map-update queue of a router that is
\* resumed and not terminated is followed by the call of draw_map of the
\* `elif item == 'UPDATE'` branch, unless the router is terminated first.
C32_UpdateLeadsToARedrawRequest ==
    (map_update_queue # <<>> /\ Head(map_update_queue) = "UPDATE"
     /\ resumed /\ ~terminate)
    ~> ((item = "UPDATE" /\ opc = "top") \/ terminate)

\* C36: the router leaves the wait of process() only in a state where the
\* voice worker's _lock is clear, it writes the POI state and requests a
\* redraw only after that wait, and no step of the router changes _lock:
\* every change of _lock is a step of VoicePromptThread.process or of a
\* playback callback.
C36_RouterWaitsForTheFlagAndNeverWritesIt ==
    /\ [][(opc = "spin" /\ RouterStep) => (~lock /\ opc' = "pois")]_vars
    /\ [][(RouterStep /\ opc' = "pois") => opc = "spin"]_vars
    /\ [][(RouterStep /\ opc' = "item") => opc = "pois"]_vars
    /\ [][(/\ RouterStep
            /\ \/ <<trigger, POIS, pois_drawn, last_route>>'
                    # <<trigger, POIS, pois_drawn, last_route>>
               \/ iter_draws' > iter_draws)
             => opc \in {"pois", "item"}]_vars
    /\ [][RouterStep => lock' = lock]_vars
    /\ [][lock' # lock => (vpc' # vpc \/ finished' # finished)]_vars

\* the router has consumed its two items and is held in its wait by a
\* playback of the voice worker, the POI list not yet bound
C36_Witness ==
    /\ opc = "spin"
    /\ lock
    /\ playing # <<>>
    /\ item = "UPDATE"
    /\ isinstance(pois, "list")
    /\ POIS = <<>>
    /\ iter_draws = 0

\* the positions of a worker inside process()
VInProcess == {"consume", "release", "spin", "dispatch", "speak"}
OInProcess == {"consume_map", "release_map", "consume_poi", "release_poi",
               "spin", "pois", "item"}

\* C17: a worker holds no queue lock while it spins on the exclusivity flag,
\* speaks or requests a redraw, the router has released the map-update lock
\* before it waits on the POI queue, and it never holds both locks.
C17_NoQueueLockHeldWhileBlocking ==
    /\ vpc \in {"spin", "dispatch", "speak"} => cv_voice = "free"
    /\ opc \in {"consume_poi", "spin", "pois", "item"} => cv_map = "free"
    /\ opc \in {"spin", "pois", "item"} => cv_poi = "free"
    /\ ~(cv_map = "osm" /\ cv_poi = "osm")

\* both workers have consumed and released, and spin on the exclusivity flag
\* while a playback is in flight
C17_Witness ==
    /\ vpc = "spin" /\ opc = "spin"
    /\ lock
    /\ Len(arqueue) = 0 /\ Len(map_update_queue) = 0 /\ Len(poi_queue) = 0
    /\ cv_voice = "free" /\ cv_map = "free" /\ cv_poi = "free"

\* C18: a worker leaves its loop only at the loop test and only with
\* terminate set, a process() step that has started is left only by its own
\* return (or exception), and after terminate is set a worker starts at most
\* one further process() step.
C18_TerminationIsCooperative ==
    /\ [](vAfter <= 1 /\ oAfter <= 1)
    /\ [][(vpc # "fin_gps" /\ vpc' = "fin_gps") => (vpc = "top" /\ terminate)]_vars
    /\ [][(opc # "stop" /\ opc' = "stop") => (opc = "top" /\ terminate)]_vars
    /\ [][(terminate /\ vpc \in VInProcess)
             => vpc' \in VInProcess \cup {"top", "dead"}]_vars
    /\ [][(terminate /\ opc \in OInProcess) => opc' \in OInProcess \cup {"top"}]_vars

\* terminate was set after the loop test of both workers: each of them ran
\* one more process() step and then left its loop
C18_Witness ==
    /\ vAfter = 1 /\ vpc = "done"
    /\ oAfter = 1 /\ opc = "done"

\* C19: a worker neither starts to drain its queues nor calls process()
\* while main_app.run_in_back_ground holds.
C19_NoStepStartedInBackground ==
    /\ [][(vpc = "chk" /\ vpc' # "chk") => ~run_in_back_ground]_vars
    /\ [][(opc = "chk" /\ opc' # "chk") => ~run_in_back_ground]_vars

====
